---- MODULE Spec2Model ----
(***************************************************************************)
(* Model of the awless template compiler: the multi-pass pipeline run by   *)
(* Compile over a parsed template and its compilation environment.         *)
(*                                                                         *)
(* Go strings are sequences of one-character strings, so that prefix       *)
(* tests, concatenation and the byte-wise order used by sort.Strings are   *)
(* computed rather than assumed.  Go maps are functions with a finite      *)
(* domain; the nil interface value is NIL.                                 *)
(***************************************************************************)
EXTENDS Integers, Sequences, FiniteSets, TLC

VARIABLES
    tpl,        \* newTpl of multiPass.compile: the sequence of statements
    env,        \* newEnv of multiPass.compile
    mode,       \* the variadic mode argument of Compile (<<>> when omitted)
    passes,     \* multiPass.passes
    idx,        \* position of the range loop over passes (1-based)
    err,        \* err of multiPass.compile
    pc,         \* "Compile" | "compile" | "returned" | "panicked"
    ran,        \* history: names of the passes that have run, in order
    given,      \* history: the template and environment handed to each pass
    prompted,   \* history: names MissingHolesFunc was called with, in order
    asked,      \* history: the calls of AliasFunc, with what each returned
    inputTpl,   \* tpl.Statements of the Template removeValueStatementsPass was handed
    tcaseVal,       \* a composite value on its own (tcase.val of TestCompositeValues)
    holesFillers,   \* the map last handed to its ProcessHoles
    holesBefore,    \* history: what its GetHoles returned before that call
    processedHoles, \* the map that call returned
    fillCount,      \* the number of calls made on it so far
    lastCall,       \* the method last called on it ("" before any call)
    buffer,         \* Peg.Init: the number of runes of buffer before endSymbol
    position,       \* Peg.Init: position
    tokenIndex,     \* Peg.Init: tokenIndex
    max,            \* Peg.Init: max, the token32 the parse error reports
    saved,          \* the positionN, tokenIndexN of the rules and choices entered
    parsed,         \* "parse" | "matched" | "failed": where p.parse is
    parseError,     \* parseError.max once p.parse has failed
    added,          \* history: the ends of the non-empty tokens handed to add
    maxBefore,      \* history: max before the last step
    tokens,         \* Peg.Execute: the tokens of the actions still to run
    Statements,     \* AST.Statements
    currentStatement,       \* AST.currentStatement (NoStmt for nil)
    currentActionStatement, \* AST.currentActionStatement (NoStmt for nil)
    currentKey,     \* AST.currentKey
    currentListBuilder,     \* AST.currentListBuilder
    executed,       \* history: the action Execute ran last ("" before any)
    thisLine,       \* history: what the source line under way has written so far
    lineLog,        \* history: the same for every line done, and what it appended
    statementsBefore,       \* history: Statements before the last action
    localGraph,     \* Compare: the parent-of triples of local
    remoteGraph,    \* Compare: the parent-of triples of remote
    rootOk,         \* Compare: node.NewNodeFromStrings("/region", rootID) succeeds
    maxCount,       \* Compare: the capacity of the channel processing
    processing,     \* Compare: the nodes buffered in the channel processing
    pending,        \* Compare: the objects of commons the range loop has yet to send
    comparing,      \* "Compare" | "sendRoot" | "loop" | "send" | "returned"
    allextras,      \* Compare: allextras
    allmissings,    \* Compare: allmissings
    allcommons      \* Compare: allcommons

compileVars == <<tpl, env, mode, passes, idx, err, pc, ran, given, prompted, asked, inputTpl>>

valueVars == <<tcaseVal, holesFillers, holesBefore, processedHoles, fillCount, lastCall>>

parseVars == <<buffer, position, tokenIndex, max, saved, parsed, parseError, added, maxBefore>>

\* What the steps of one specification leave alone: the variables of the others.
buildVars == <<tokens, Statements, currentStatement, currentActionStatement, currentKey,
               currentListBuilder, executed, thisLine, lineLog, statementsBefore>>

compareVars == <<localGraph, remoteGraph, rootOk, maxCount, processing, pending, comparing,
                 allextras, allmissings, allcommons>>

exceptCompile == <<valueVars, parseVars, buildVars, compareVars>>

exceptValue == <<compileVars, parseVars, buildVars, compareVars>>

exceptParse == <<compileVars, valueVars, buildVars, compareVars>>

exceptBuild == <<compileVars, valueVars, parseVars, compareVars>>

exceptCompare == <<compileVars, valueVars, parseVars, buildVars>>

vars == <<tpl, env, mode, passes, idx, err, pc, ran, given, prompted, asked, inputTpl,
          tcaseVal, holesFillers, holesBefore, processedHoles, fillCount, lastCall,
          buffer, position, tokenIndex, max, saved, parsed, parseError, added, maxBefore,
          tokens, Statements, currentStatement, currentActionStatement, currentKey,
          currentListBuilder, executed, thisLine, lineLog, statementsBefore,
          localGraph, remoteGraph, rootOk, maxCount, processing, pending, comparing,
          allextras, allmissings, allcommons>>

----------------------------------------------------------------------------
\* Strings

NIL == <<"nil">>

Ord(c) ==
    CASE c = "." -> 46
      [] c = "@" -> 64
      [] c = "a" -> 97
      [] c = "b" -> 98
      [] c = "c" -> 99
      [] c = "g" -> 103
      [] c = "h" -> 104
      [] c = "n" -> 110
      [] c = "p" -> 112
      [] c = "s" -> 115
      [] c = "v" -> 118
      [] c = "w" -> 119
      [] c = "x" -> 120
      [] c = "z" -> 122

RECURSIVE StrLess(_, _)
StrLess(a, b) ==
    IF a = <<>> THEN b # <<>>
    ELSE IF b = <<>> THEN FALSE
    ELSE IF Ord(Head(a)) # Ord(Head(b)) THEN Ord(Head(a)) < Ord(Head(b))
    ELSE StrLess(Tail(a), Tail(b))

RECURSIVE SortStrings(_)
SortStrings(S) ==
    IF S = {} THEN <<>>
    ELSE LET m == CHOOSE x \in S : \A y \in S : x = y \/ StrLess(x, y)
         IN  <<m>> \o SortStrings(S \ {m})

HasPrefix(s, p) == Len(s) >= Len(p) /\ SubSeq(s, 1, Len(p)) = p

TrimPrefix(s, p) == IF HasPrefix(s, p) THEN SubSeq(s, Len(p) + 1, Len(s)) ELSE s

----------------------------------------------------------------------------
\* Maps

EmptyMap == [x \in {} |-> NIL]

\* The map with the one entry k: v.
Only(k, v) == [x \in {k} |-> v]

MapPut(m, k, v) == [x \in DOMAIN m \cup {k} |-> IF x = k THEN v ELSE m[x]]

MapDelete(m, k) == [x \in DOMAIN m \ {k} |-> m[x]]

MapMerge(m, f) == [x \in DOMAIN m \cup DOMAIN f |-> IF x \in DOMAIN f THEN f[x] ELSE m[x]]

MapValues(m) == {m[k] : k \in DOMAIN m}

SeqRange(s) == {s[i] : i \in 1..Len(s)}

----------------------------------------------------------------------------
\* Errors

NoErr == [msg |-> "nil", args |-> <<>>]

Errorf(msg, args) == [msg |-> msg, args |-> args]

----------------------------------------------------------------------------
\* Composite values (values.go)

\* The five variants.  name is the hole, alias or ref of the variant, val its
\* val (NIL for a Go nil), vals the elements of a list.
interfaceValue(v) == [kind |-> "interfaceValue", name |-> <<>>, val |-> v, vals |-> <<>>]

holeValue(hole, v) == [kind |-> "holeValue", name |-> hole, val |-> v, vals |-> <<>>]

aliasValue(alias, v) == [kind |-> "aliasValue", name |-> alias, val |-> v, vals |-> <<>>]

referenceValue(ref, v) == [kind |-> "referenceValue", name |-> ref, val |-> v, vals |-> <<>>]

NewCompositeValue(values) == [kind |-> "listValue", name |-> <<>>, val |-> NIL, vals |-> values]

\* The variants that satisfy WithHoles, WithRefs and WithAlias.
IsWithHoles(v) == v.kind \in {"holeValue", "listValue"}

IsWithRefs(v) == v.kind \in {"referenceValue", "listValue"}

IsWithAlias(v) == v.kind \in {"aliasValue", "listValue"}

\* Mutant of Flatten: the results of the children come in reverse child order.
RECURSIVE FlattenReversed(_)
FlattenReversed(ss) == IF ss = <<>> THEN <<>> ELSE FlattenReversed(Tail(ss)) \o Head(ss)

\* The appends of a loop over the children, in child order.
RECURSIVE Flatten(_)
Flatten(ss) == IF ss = <<>> THEN <<>> ELSE Head(ss) \o Flatten(Tail(ss))

\* holeValue.GetHoles
holeValueGetHoles(h) == IF h.val = NIL THEN <<h.name>> ELSE <<>>

\* listValue.GetHoles
RECURSIVE listValueGetHoles(_)
listValueGetHoles(l) ==
    Flatten([i \in 1..Len(l.vals) |->
               CASE l.vals[i].kind = "holeValue" -> holeValueGetHoles(l.vals[i])
                 [] l.vals[i].kind = "listValue" -> listValueGetHoles(l.vals[i])
                 [] OTHER -> <<>>])

\* holeValue.ProcessHoles: the value after the call and the map it returns.
holeValueProcessHoles(h, fills) ==
    IF h.name \in DOMAIN fills
    THEN [val |-> [h EXCEPT !.val = fills[h.name]], processed |-> Only(h.name, fills[h.name])]
    ELSE [val |-> h, processed |-> EmptyMap]

\* listValue.ProcessHoles
RECURSIVE listValueProcessHoles(_, _)
listValueProcessHoles(l, fills) ==
    LET each == [i \in 1..Len(l.vals) |->
                   CASE l.vals[i].kind = "holeValue" -> holeValueProcessHoles(l.vals[i], fills)
                     [] l.vals[i].kind = "listValue" -> listValueProcessHoles(l.vals[i], fills)
                     [] OTHER -> [val |-> l.vals[i], processed |-> EmptyMap]]
        consumed == UNION {DOMAIN each[i].processed : i \in 1..Len(l.vals)}
    IN  [val |-> [l EXCEPT !.vals = [i \in 1..Len(l.vals) |-> each[i].val]],
         processed |-> [n \in consumed |-> fills[n]]]

\* aliasValue.GetAliases
aliasValueGetAliases(a) == <<a.name>>

\* listValue.GetAliases
RECURSIVE listValueGetAliases(_)
listValueGetAliases(l) ==
    Flatten([i \in 1..Len(l.vals) |->
               CASE l.vals[i].kind = "aliasValue" -> aliasValueGetAliases(l.vals[i])
                 [] l.vals[i].kind = "listValue" -> listValueGetAliases(l.vals[i])
                 [] OTHER -> <<>>])

\* aliasValue.ResolveAlias, resolvFunc being a map from the alias to what the
\* function returns for it.
aliasValueResolveAlias(a, resolvFunc) == [a EXCEPT !.val = resolvFunc[a.name]]

\* listValue.ResolveAlias
RECURSIVE listValueResolveAlias(_, _)
listValueResolveAlias(l, resolvFunc) ==
    [l EXCEPT !.vals = [i \in 1..Len(l.vals) |->
        CASE l.vals[i].kind = "aliasValue" -> aliasValueResolveAlias(l.vals[i], resolvFunc)
          [] l.vals[i].kind = "listValue" -> listValueResolveAlias(l.vals[i], resolvFunc)
          [] OTHER -> l.vals[i]]]

\* referenceValue.GetRefs
referenceValueGetRefs(r) == <<r.name>>

\* listValue.GetRefs
RECURSIVE listValueGetRefs(_)
listValueGetRefs(l) ==
    Flatten([i \in 1..Len(l.vals) |->
               CASE l.vals[i].kind = "referenceValue" -> referenceValueGetRefs(l.vals[i])
                 [] l.vals[i].kind = "listValue" -> listValueGetRefs(l.vals[i])
                 [] OTHER -> <<>>])

\* referenceValue.ProcessRefs
referenceValueProcessRefs(r, fills) ==
    IF r.name \in DOMAIN fills THEN [r EXCEPT !.val = fills[r.name]] ELSE r

\* listValue.ProcessRefs
RECURSIVE listValueProcessRefs(_, _)
listValueProcessRefs(l, fills) ==
    [l EXCEPT !.vals = [i \in 1..Len(l.vals) |->
        CASE l.vals[i].kind = "referenceValue" -> referenceValueProcessRefs(l.vals[i], fills)
          [] l.vals[i].kind = "listValue" -> listValueProcessRefs(l.vals[i], fills)
          [] OTHER -> l.vals[i]]]

\* GetRefs of a composite value of any variant: nothing for the variants that
\* are not WithRefs.
valueGetRefs(v) ==
    CASE v.kind = "referenceValue" -> referenceValueGetRefs(v)
      [] v.kind = "listValue" -> listValueGetRefs(v)
      [] OTHER -> <<>>

\* GetAliases of a composite value of any variant: nothing for the variants
\* that are not WithAlias.
valueGetAliases(v) ==
    CASE v.kind = "aliasValue" -> aliasValueGetAliases(v)
      [] v.kind = "listValue" -> listValueGetAliases(v)
      [] OTHER -> <<>>

\* ProcessRefs of a composite value of any variant.
valueProcessRefs(v, fills) ==
    CASE v.kind = "referenceValue" -> referenceValueProcessRefs(v, fills)
      [] v.kind = "listValue" -> listValueProcessRefs(v, fills)
      [] OTHER -> v

\* ResolveAlias of a composite value of any variant.
valueResolveAlias(v, resolvFunc) ==
    CASE v.kind = "aliasValue" -> aliasValueResolveAlias(v, resolvFunc)
      [] v.kind = "listValue" -> listValueResolveAlias(v, resolvFunc)
      [] OTHER -> v

\* What Value() returns, an interface{}: the nil interface, a string, or a
\* []interface{} (which is not the nil interface even when the slice is nil).
GoNil == [type |-> "nil", str |-> <<>>, elems |-> <<>>]

GoString(s) == [type |-> "string", str |-> s, elems |-> <<>>]

GoSlice(elems) == [type |-> "[]interface{}", str |-> <<>>, elems |-> elems]

\* interfaceValue.Value, holeValue.Value, aliasValue.Value, referenceValue.Value:
\* the field val.
scalarValue(v) == IF v.val = NIL THEN GoNil ELSE GoString(v.val)

\* Mutant of NonNil: every value is appended.
NonNilAll(vs) == vs

\* The appends of the loop of listValue.Value: the values that are != nil.
NonNil(vs) == SelectSeq(vs, LAMBDA x : x # GoNil)

\* listValue.Value
RECURSIVE listValueValue(_)
listValueValue(l) ==
    GoSlice(NonNil([i \in 1..Len(l.vals) |->
                      IF l.vals[i].kind = "listValue"
                      THEN listValueValue(l.vals[i])
                      ELSE scalarValue(l.vals[i])]))

\* Value of a composite value of any variant.
valueValue(v) == IF v.kind = "listValue" THEN listValueValue(v) ELSE scalarValue(v)

----------------------------------------------------------------------------
\* AST: statements, commands, assignments

\* A statement.  Node is "CommandNode", "ActionNode" or "DeclarationNode"; for
\* a declaration Expr is "CommandNode" or "ValueNode".  The command fields
\* (Action, Entity, Params, Refs, Holes) and the value fields (Value, Hole)
\* belong to the node or to the declaration's expression.  ActionParams is the
\* Params of an ActionNode, a map from the key to a composite value.
Stmt(node, ident, expr, action, entity, params, refs, holes, value, hole) ==
    [Node |-> node, Ident |-> ident, Expr |-> expr,
     Action |-> action, Entity |-> entity,
     Params |-> params, Refs |-> refs, Holes |-> holes,
     Value |-> value, Hole |-> hole, ActionParams |-> EmptyMap]

CommandStmt(action, entity, params, refs, holes) ==
    Stmt("CommandNode", <<>>, "", action, entity, params, refs, holes, NIL, <<>>)

DeclCommandStmt(ident, action, entity, params, refs, holes) ==
    Stmt("DeclarationNode", ident, "CommandNode", action, entity, params, refs, holes, NIL, <<>>)

DeclValueStmt(ident, value, hole) ==
    Stmt("DeclarationNode", ident, "ValueNode", <<>>, <<>>, EmptyMap, EmptyMap, EmptyMap, value, hole)

ActionStmt(action, entity, params) ==
    [Stmt("ActionNode", <<>>, "", action, entity, EmptyMap, EmptyMap, EmptyMap, NIL, <<>>)
        EXCEPT !.ActionParams = params]

IsDeclaration(st) == st.Node = "DeclarationNode"

IsCommand(st) ==
    \/ st.Node = "CommandNode"
    \/ st.Node = "DeclarationNode" /\ st.Expr = "CommandNode"

IsValue(st) == st.Node = "DeclarationNode" /\ st.Expr = "ValueNode"

IsAction(st) == st.Node = "ActionNode"

\* Template.visitCommandNodes: fn on every command, direct or bound by an
\* assignment, in document order.  applied[i] is fn on statement i.
visitCommandNodes(t, applied) ==
    [i \in 1..Len(t) |-> IF IsCommand(t[i]) THEN applied[i] ELSE t[i]]

\* Template.visitCommandNodesE: the error of the first command, in document
\* order, for which each returns one.  errs[i] is the set of errors each can
\* return on statement i, {NoErr} when it returns nil.
visitCommandNodesE(t, errs) ==
    LET failing == {i \in 1..Len(t) : IsCommand(t[i]) /\ errs[i] # {NoErr}}
    IN  IF failing = {} THEN {NoErr}
        ELSE errs[CHOOSE i \in failing : \A j \in failing : i <= j]

\* CommandNode.Keys: the keys of Params and of Refs.
Keys(cmd) == DOMAIN cmd.Params \cup DOMAIN cmd.Refs

----------------------------------------------------------------------------
\* Pass 1: resolveAgainstDefinitions

tplKeyOf(cmd) == cmd.Action \o cmd.Entity

DefLookup(e, key) == e.DefLookupFunc.table[key]

DefDefined(e, key) == key \in DOMAIN e.DefLookupFunc.table

\* Mutant of eachDefinition: only the required keys are looked up.
eachDefinitionRequiredOnly(e, cmd) ==
    IF tplKeyOf(cmd) \notin DOMAIN e.DefLookupFunc.table
    THEN {Errorf("cannot find template definition", <<tplKeyOf(cmd)>>)}
    ELSE LET def == e.DefLookupFunc.table[tplKeyOf(cmd)]
             unexpected == {key \in Keys(cmd) : key \notin SeqRange(def.Required)}
         IN  IF unexpected = {} THEN {NoErr}
             ELSE {Errorf("unexpected param key", <<key>>) : key \in unexpected}

\* The closure `each` of resolveAgainstDefinitions.  cmd.Keys() ranges over Go
\* maps, so the key named by the error is any of the unexpected ones.
eachDefinition(e, cmd) ==
    IF ~DefDefined(e, tplKeyOf(cmd))
    THEN {Errorf("cannot find template definition", <<tplKeyOf(cmd)>>)}
    ELSE LET def == DefLookup(e, tplKeyOf(cmd))
             unexpected == {key \in Keys(cmd) :
                              key \notin SeqRange(def.Required) \cup SeqRange(def.Extra)}
         IN  IF unexpected = {} THEN {NoErr}
             ELSE {Errorf("unexpected param key", <<key>>) : key \in unexpected}

Normalized(entity, required) == entity \o <<".">> \o required

\* Mutant of normalizeRequired: the normalized hole replaces a hole the user
\* wrote at the required key.
normalizeRequiredOverwrites(cmd, required) ==
    IF required \in DOMAIN cmd.Params \/ required \in DOMAIN cmd.Refs
    THEN [cmd EXCEPT !.Holes = MapDelete(@, Normalized(cmd.Entity, required))]
    ELSE [cmd EXCEPT !.Holes = MapPut(@, required, Normalized(cmd.Entity, required))]

\* Mutant of normalizeRequired: the hole of a missing required key is stored
\* at the normalized name, with the required key as its value.
normalizeRequiredKeyedByName(cmd, required) ==
    IF required \in DOMAIN cmd.Params \/ required \in DOMAIN cmd.Refs
    THEN [cmd EXCEPT !.Holes = MapDelete(@, Normalized(cmd.Entity, required))]
    ELSE IF required \in DOMAIN cmd.Holes THEN cmd
    ELSE [cmd EXCEPT !.Holes = MapPut(@, Normalized(cmd.Entity, required), required)]

\* One iteration of the loop over def.Required().
normalizeRequired(cmd, required) ==
    LET isInParams == required \in DOMAIN cmd.Params
        isInRefs == required \in DOMAIN cmd.Refs
        normalized == Normalized(cmd.Entity, required)
    IN  IF isInParams \/ isInRefs
        THEN [cmd EXCEPT !.Holes = MapDelete(@, normalized)]
        ELSE IF required \in DOMAIN cmd.Holes THEN cmd
        ELSE [cmd EXCEPT !.Holes = MapPut(@, required, normalized)]

RECURSIVE normalizeAllRequired(_, _, _)
normalizeAllRequired(cmd, requireds, i) ==
    IF i > Len(requireds) THEN cmd
    ELSE normalizeAllRequired(normalizeRequired(cmd, requireds[i]), requireds, i + 1)

normalizeHoles(e, cmd) ==
    normalizeAllRequired(cmd, DefLookup(e, tplKeyOf(cmd)).Required, 1)

\* Mutant of resolveAgainstDefinitions: one visit validates and normalizes
\* each command in turn, so the commands before a failing one are normalized.
RECURSIVE validateAndNormalizeFrom(_, _, _)
validateAndNormalizeFrom(t, e, i) ==
    IF i > Len(t) THEN {[tpl |-> t, env |-> e, err |-> NoErr]}
    ELSE IF ~IsCommand(t[i]) THEN validateAndNormalizeFrom(t, e, i + 1)
    ELSE IF eachDefinition(e, t[i]) # {NoErr}
    THEN {[tpl |-> t, env |-> e, err |-> x] : x \in eachDefinition(e, t[i])}
    ELSE validateAndNormalizeFrom([t EXCEPT ![i] = normalizeHoles(e, t[i])], e, i + 1)

resolveAgainstDefinitionsInOneVisit(t, e) ==
    IF e.DefLookupFunc.isNil
    THEN {[tpl |-> t, env |-> e, err |-> Errorf("definition lookup function is undefined", <<>>)]}
    ELSE validateAndNormalizeFrom(t, e, 1)

\* The set of results (template, environment, error) the pass can return.
resolveAgainstDefinitions(t, e) ==
    IF e.DefLookupFunc.isNil
    THEN {[tpl |-> t, env |-> e, err |-> Errorf("definition lookup function is undefined", <<>>)]}
    ELSE LET each(cmd) == eachDefinition(e, cmd)
             errs == visitCommandNodesE(t, [i \in 1..Len(t) |-> each(t[i])])
             norm(cmd) == normalizeHoles(e, cmd)
         IN  IF errs # {NoErr}
             THEN {[tpl |-> t, env |-> e, err |-> x] : x \in errs}
             ELSE {[tpl |-> visitCommandNodes(t, [i \in 1..Len(t) |-> norm(t[i])]), env |-> e, err |-> NoErr]}

----------------------------------------------------------------------------
\* Pass 2: checkInvalidReferenceDeclarations

\* The closure `each` of checkInvalidReferenceDeclarations; cmd.Refs is a Go
\* map, so the reference named by the error is any of the unknown ones.
eachReference(knownRefs, cmd) ==
    LET unknown == {ref \in MapValues(cmd.Refs) : ref \notin knownRefs}
    IN  IF unknown = {} THEN {NoErr}
        ELSE {Errorf("is undefined in template", <<ref>>) : ref \in unknown}

\* Mutant of checkStatements: the identifier of an assignment is known before
\* the references of its command are checked.
RECURSIVE checkStatementsIdentFirst(_, _, _)
checkStatementsIdentFirst(t, i, knownRefs) ==
    IF i > Len(t) THEN {NoErr}
    ELSE LET st == t[i]
             duplicate == IsDeclaration(st) /\ st.Ident \in knownRefs
             known == IF IsDeclaration(st) THEN knownRefs \cup {st.Ident} ELSE knownRefs
             errs == IF IsCommand(st) THEN eachReference(known, st) ELSE {NoErr}
         IN  IF errs # {NoErr} THEN errs
             ELSE IF duplicate
                  THEN {Errorf("has already been assigned in template", <<st.Ident>>)}
                  ELSE checkStatementsIdentFirst(t, i + 1, known)

\* Mutant of checkStatements: an identifier may be assigned twice.
RECURSIVE checkStatementsNoDuplicateCheck(_, _, _)
checkStatementsNoDuplicateCheck(t, i, knownRefs) ==
    IF i > Len(t) THEN {NoErr}
    ELSE LET st == t[i]
             errs == IF IsCommand(st) THEN eachReference(knownRefs, st) ELSE {NoErr}
         IN  IF errs # {NoErr} THEN errs
             ELSE IF IsDeclaration(st)
                  THEN checkStatementsNoDuplicateCheck(t, i + 1, knownRefs \cup {st.Ident})
                  ELSE checkStatementsNoDuplicateCheck(t, i + 1, knownRefs)

\* The loop over tpl.Statements from statement i on, knownRefs being the
\* identifiers assigned so far.
RECURSIVE checkStatements(_, _, _)
checkStatements(t, i, knownRefs) ==
    IF i > Len(t) THEN {NoErr}
    ELSE LET st == t[i]
             errs == IF IsCommand(st) THEN eachReference(knownRefs, st) ELSE {NoErr}
         IN  IF errs # {NoErr} THEN errs
             ELSE IF IsDeclaration(st)
                  THEN IF st.Ident \in knownRefs
                       THEN {Errorf("has already been assigned in template", <<st.Ident>>)}
                       ELSE checkStatements(t, i + 1, knownRefs \cup {st.Ident})
                  ELSE checkStatements(t, i + 1, knownRefs)

checkInvalidReferenceDeclarations(t, e) ==
    {[tpl |-> t, env |-> e, err |-> x] : x \in checkStatements(t, 1, {})}

----------------------------------------------------------------------------
\* Holes and references of the nodes

\* GetHoles of a composite value of any variant (an interfaceValue, an
\* aliasValue and a referenceValue have no hole).
valueGetHoles(v) ==
    CASE v.kind = "holeValue" -> holeValueGetHoles(v)
      [] v.kind = "listValue" -> listValueGetHoles(v)
      [] OTHER -> <<>>

\* Mutant of valueProcessHoles: a null fill is not handed to the value.
valueProcessHolesNonNull(v, fills) ==
    LET nonNull == [n \in {n \in DOMAIN fills : fills[n] # NIL} |-> fills[n]]
    IN  CASE v.kind = "holeValue" -> holeValueProcessHoles(v, nonNull)
          [] v.kind = "listValue" -> listValueProcessHoles(v, nonNull)
          [] OTHER -> [val |-> v, processed |-> EmptyMap]

\* ProcessHoles of a composite value of any variant.
valueProcessHoles(v, fills) ==
    CASE v.kind = "holeValue" -> holeValueProcessHoles(v, fills)
      [] v.kind = "listValue" -> listValueProcessHoles(v, fills)
      [] OTHER -> [val |-> v, processed |-> EmptyMap]

\* The Params of an ActionNode that satisfy WithHoles.
HoleParams(st) == {k \in DOMAIN st.ActionParams : IsWithHoles(st.ActionParams[k])}

\* GetHoles of one param of an ActionNode.
paramGetHoles(v) ==
    IF v.kind = "holeValue" THEN holeValueGetHoles(v) ELSE listValueGetHoles(v)

\* ProcessHoles of one param of an ActionNode.
paramProcessHoles(v, fills) ==
    IF v.kind = "holeValue" THEN holeValueProcessHoles(v, fills)
    ELSE listValueProcessHoles(v, fills)

\* CommandNode.GetHoles / ValueNode.GetHoles / ActionNode.GetHoles: the names
\* of the unresolved holes.
GetHoles(st) ==
    IF IsCommand(st) THEN MapValues(st.Holes)
    ELSE IF IsValue(st) /\ st.Hole # <<>> THEN {st.Hole}
    ELSE IF IsAction(st)
    THEN UNION {SeqRange(paramGetHoles(st.ActionParams[k])) : k \in HoleParams(st)}
    ELSE {}

\* CommandNode.ProcessHoles / ValueNode.ProcessHoles / ActionNode.ProcessHoles:
\* fillHoles(fills).  Every hole whose name is a key of fills is consumed; a
\* hole given a non-null value becomes a param (a command) or the value (an
\* assignment), a hole given null stays unresolved; the values of an ActionNode
\* get ProcessHoles(fills).  The result is the node and the consumed entries.
ProcessHoles(st, fills) ==
    IF IsCommand(st)
    THEN LET consumed == {key \in DOMAIN st.Holes : st.Holes[key] \in DOMAIN fills}
             filled == {key \in consumed : fills[st.Holes[key]] # NIL}
         IN  [node |-> [st EXCEPT
                          !.Params = [key \in DOMAIN st.Params \cup filled |->
                                        IF key \in filled THEN fills[st.Holes[key]]
                                        ELSE st.Params[key]],
                          !.Holes = [key \in DOMAIN st.Holes \ filled |-> st.Holes[key]]],
              processed |-> [hole \in {st.Holes[key] : key \in consumed} |-> fills[hole]]]
    ELSE IF IsValue(st) /\ st.Hole # <<>> /\ st.Hole \in DOMAIN fills
    THEN [node |-> IF fills[st.Hole] # NIL
                   THEN [st EXCEPT !.Value = fills[st.Hole], !.Hole = <<>>]
                   ELSE st,
          processed |-> [hole \in {st.Hole} |-> fills[hole]]]
    ELSE IF IsAction(st)
    THEN LET each == [k \in HoleParams(st) |-> paramProcessHoles(st.ActionParams[k], fills)]
         IN  [node |-> [st EXCEPT !.ActionParams =
                          [k \in DOMAIN st.ActionParams |->
                             IF k \in HoleParams(st) THEN each[k].val ELSE st.ActionParams[k]]],
              processed |-> [hole \in UNION {DOMAIN each[k].processed : k \in HoleParams(st)} |->
                               fills[hole]]]
    ELSE [node |-> st, processed |-> EmptyMap]

\* ValueNode.IsResolved
IsResolved(st) == st.Hole = <<>>

\* ValueNode.Result
Result(st) == st.Value

\* CommandNode.ProcessRefs: fillRefs(fills).
ProcessRefs(cmd, fills) ==
    LET replaced == {key \in DOMAIN cmd.Refs : cmd.Refs[key] \in DOMAIN fills}
    IN  [cmd EXCEPT
           !.Params = [key \in DOMAIN cmd.Params \cup replaced |->
                         IF key \in replaced THEN fills[cmd.Refs[key]]
                         ELSE cmd.Params[key]],
           !.Refs = [key \in DOMAIN cmd.Refs \ replaced |-> cmd.Refs[key]]]

\* Mutant of addToProcessedFillers: the entries replace the earlier ones.
addToProcessedFillersReplaces(e, fills) ==
    [e EXCEPT !.processedFillers = fills]

\* Env.addToProcessedFillers
addToProcessedFillers(e, fills) ==
    [e EXCEPT !.processedFillers = MapMerge(@, fills)]

\* Template.visitHoles with the callback of the two hole passes: every node
\* that carries holes gets ProcessHoles(fills), in document order, and what it
\* consumed is merged into env.processedFillers.
RECURSIVE visitHolesProcess(_, _, _, _)
visitHolesProcess(t, e, fills, i) ==
    IF i > Len(t) THEN [tpl |-> t, env |-> e]
    ELSE LET r == ProcessHoles(t[i], fills)
         IN  visitHolesProcess([t EXCEPT ![i] = r.node],
                               addToProcessedFillers(e, r.processed), fills, i + 1)

----------------------------------------------------------------------------
\* Pass 3: resolveHolesPass

\* Mutant of resolveHolesPass: the holes are filled from the processed fillers.
resolveHolesPassFromProcessed(t, e) ==
    LET r == visitHolesProcess(t, e, e.processedFillers, 1)
    IN  {[tpl |-> r.tpl, env |-> r.env, err |-> NoErr]}

resolveHolesPass(t, e) ==
    LET r == visitHolesProcess(t, e, e.Fillers, 1)
    IN  {[tpl |-> r.tpl, env |-> r.env, err |-> NoErr]}

----------------------------------------------------------------------------
\* Pass 4: resolveMissingHolesPass

uniqueHoles(t) == UNION {GetHoles(t[i]) : i \in 1..Len(t)}

\* Mutant of sortedHoles: the names are sorted in descending order.
sortedHolesDescending(t) ==
    LET asc == SortStrings(uniqueHoles(t))
    IN  [i \in 1..Len(asc) |-> asc[Len(asc) + 1 - i]]

sortedHoles(t) == SortStrings(uniqueHoles(t))

\* The calls made to env.MissingHolesFunc, in order.
missingHolesCalls(t, e) ==
    IF e.MissingHolesFuncIsNil THEN <<>> ELSE sortedHoles(t)

\* What the callback may answer to one call.
CallbackAnswers == {<<"w">>, NIL}

resolveMissingHolesPass(t, e) ==
    LET names == SeqRange(missingHolesCalls(t, e))
    IN  {[tpl |-> visitHolesProcess(t, e, fillers, 1).tpl,
          env |-> visitHolesProcess(t, e, fillers, 1).env,
          err |-> NoErr] : fillers \in [names -> CallbackAnswers]}

----------------------------------------------------------------------------
\* Pass 5: replaceVariableValuePass

\* Template.visitDeclarationNodes with the callback of the pass.
RECURSIVE recordResolvedValues(_, _, _)
recordResolvedValues(t, e, i) ==
    IF i > Len(t) THEN e
    ELSE IF IsValue(t[i]) /\ IsResolved(t[i])
         THEN recordResolvedValues(t,
                  [e EXCEPT !.ResolvedReferences = MapPut(@, t[i].Ident, Result(t[i]))],
                  i + 1)
         ELSE recordResolvedValues(t, e, i + 1)

\* Mutant of replaceVariableValuePass: the commands are filled from the
\* references resolved before the pass.
replaceVariableValuePassStale(t, e) ==
    LET newEnv == recordResolvedValues(t, e, 1)
        fill(cmd) == ProcessRefs(cmd, e.ResolvedReferences)
    IN  {[tpl |-> visitCommandNodes(t, [i \in 1..Len(t) |-> fill(t[i])]), env |-> newEnv, err |-> NoErr]}

replaceVariableValuePass(t, e) ==
    LET newEnv == recordResolvedValues(t, e, 1)
        fill(cmd) == ProcessRefs(cmd, newEnv.ResolvedReferences)
    IN  {[tpl |-> visitCommandNodes(t, [i \in 1..Len(t) |-> fill(t[i])]), env |-> newEnv, err |-> NoErr]}

----------------------------------------------------------------------------
\* Pass 6: removeValueStatementsPass

\* Mutant of keptByRemoveValueStatements: every assignment of a value is dropped.
keptOnlyCommands(st) == ~IsValue(st)

keptByRemoveValueStatements(st) == ~(IsValue(st) /\ IsResolved(st))

removeValueStatementsPass(t, e) ==
    {[tpl |-> SelectSeq(t, keptByRemoveValueStatements), env |-> e, err |-> NoErr]}

\* newTpl.Statements = append(newTpl.Statements, stmt) appends the pointer
\* stmt of tpl.Statements: the place in newTpl.Statements of the Statement that
\* tpl.Statements[i] points to, 0 when it is not appended.
sharedAt(t, i) ==
    IF keptByRemoveValueStatements(t[i])
    THEN Cardinality({j \in 1..i : keptByRemoveValueStatements(t[j])})
    ELSE 0

\* tpl.Statements of the Template the pass was handed, once it has returned:
\* statement i is the Statement at place `at` of the template returned (a
\* shared pointer), or, when at is 0, a Statement of its own; node is what
\* the Statement held when the pass was called.
statementPointers(t) == [i \in 1..Len(t) |-> [at |-> sharedAt(t, i), node |-> t[i]]]

\* What the statements pointed to hold, newTpl being the template returned as
\* it is now.
Dereference(pointers, newTpl) ==
    [i \in 1..Len(pointers) |->
        IF pointers[i].at > 0 THEN newTpl[pointers[i].at] ELSE pointers[i].node]

----------------------------------------------------------------------------
\* Orders of iteration over Go maps

\* The orders in which a range loop can visit the keys S of a map.
Perms(S) ==
    {p \in [1..Cardinality(S) -> S] :
        \A i, j \in 1..Cardinality(S) : i # j => p[i] # p[j]}

\* The lists a visit of the commands can append to, when command i appends
\* item(i, key) for every key of keysOf(i), in map order.
RECURSIVE appendOrders(_, _)
appendOrders(perCommand, i) ==
    IF i > Len(perCommand) THEN {<<>>}
    ELSE {h \o r : h \in perCommand[i], r \in appendOrders(perCommand, i + 1)}

----------------------------------------------------------------------------
\* Pass 7: resolveAliasPass

IsString(v) == v # NIL

IsAliasString(v) == IsString(v) /\ HasPrefix(v, <<"@">>)

AliasKeys(st) ==
    IF IsCommand(st) THEN {k \in DOMAIN st.Params : IsAliasString(st.Params[k])} ELSE {}

\* What env.AliasFunc may return for one call: "" (unresolved) or an identifier.
AliasAnswers == {<<>>, <<"x">>}

\* The visit of the command nodes, actual[<<i, k>>] being what env.AliasFunc
\* returns for param k of statement i.
resolveCommandAliases(t, actual) ==
    [i \in 1..Len(t) |->
        LET resolved == {k \in AliasKeys(t[i]) : actual[<<i, k>>] # <<>>}
        IN  IF IsCommand(t[i])
            THEN [t[i] EXCEPT
                    !.Params = [k \in DOMAIN t[i].Params |->
                                  IF k \in resolved THEN actual[<<i, k>>] ELSE t[i].Params[k]],
                    !.Holes = [k \in DOMAIN t[i].Holes \ resolved |-> t[i].Holes[k]]]
            ELSE t[i]]

\* The Params of an ActionNode that satisfy WithAlias.
WithAliasParams(st) == {k \in DOMAIN st.ActionParams : IsWithAlias(st.ActionParams[k])}

\* GetAliases of one param of an ActionNode: the aliases ResolveAlias hands
\* to its function, in order.
paramGetAliases(v) ==
    IF v.kind = "aliasValue" THEN aliasValueGetAliases(v) ELSE listValueGetAliases(v)

\* ResolveAlias of one param of an ActionNode.
paramResolveAlias(v, resolvFunc) ==
    IF v.kind = "aliasValue" THEN aliasValueResolveAlias(v, resolvFunc)
    ELSE listValueResolveAlias(v, resolvFunc)

\* The calls env.AliasFunc(action.Entity, k, alias) of the visit of the action
\* nodes: statement, key and alias.
actionAliasCalls(t) ==
    UNION {UNION {{<<i, k, a>> : a \in SeqRange(paramGetAliases(t[i].ActionParams[k]))} :
                    k \in WithAliasParams(t[i])} : i \in 1..Len(t)}

\* The visit of the action nodes, actual[<<i, k, a>>] being what env.AliasFunc
\* returns for the alias a of param k of statement i.
resolveActionAliases(t, actual) ==
    [i \in 1..Len(t) |->
        [t[i] EXCEPT !.ActionParams =
            [k \in DOMAIN t[i].ActionParams |->
                IF k \in WithAliasParams(t[i])
                THEN paramResolveAlias(
                         t[i].ActionParams[k],
                         [a \in SeqRange(paramGetAliases(t[i].ActionParams[k])) |->
                             actual[<<i, k, a>>]])
                ELSE t[i].ActionParams[k]]]]

\* What the visit of the action nodes can append to emptyResolv.
actionEmptyResolvOrders(t, actual) ==
    appendOrders(
        [i \in 1..Len(t) |->
            {Flatten([j \in 1..Len(p) |->
                        SelectSeq(paramGetAliases(t[i].ActionParams[p[j]]),
                                  LAMBDA a : actual[<<i, p[j], a>>] = <<>>)]) :
                p \in Perms(WithAliasParams(t[i]))}],
        1)

\* The calls of the visit of the action nodes, as aliasCalls gives those of
\* the command nodes.
actionCalls(t, actual) ==
    {[stmt |-> c[1], entity |-> t[c[1]].Entity, key |-> c[2],
      alias |-> c[3], actual |-> actual[c]] : c \in DOMAIN actual}

\* Mutant of emptyResolvOrders: only the first alias that failed is kept.
emptyResolvFirstOnly(t, actual) ==
    LET all == appendOrders(
                 [i \in 1..Len(t) |->
                     {[j \in 1..Len(p) |-> TrimPrefix(t[i].Params[p[j]], <<"@">>)] :
                         p \in Perms({k \in AliasKeys(t[i]) : actual[<<i, k>>] = <<>>})}],
                 1)
    IN  {IF Len(l) > 1 THEN <<l[1]>> ELSE l : l \in all}

\* The values emptyResolv can have after the visit.
emptyResolvOrders(t, actual) ==
    appendOrders(
        [i \in 1..Len(t) |->
            {[j \in 1..Len(p) |-> TrimPrefix(t[i].Params[p[j]], <<"@">>)] :
                p \in Perms({k \in AliasKeys(t[i]) : actual[<<i, k>>] = <<>>})}],
        1)

\* Mutant of aliasCalls: the resolver is given the param with its "@".
aliasCallsWithPrefix(t, actual) ==
    {[stmt |-> c[1], entity |-> t[c[1]].Entity, key |-> c[2],
      alias |-> t[c[1]].Params[c[2]], actual |-> actual[c]] : c \in DOMAIN actual}

\* The calls env.AliasFunc(entity, key, alias) of the visit, each with the
\* statement it was made for and what it returned.
aliasCalls(t, actual) ==
    {[stmt |-> c[1], entity |-> t[c[1]].Entity, key |-> c[2],
      alias |-> TrimPrefix(t[c[1]].Params[c[2]], <<"@">>), actual |-> actual[c]] :
        c \in DOMAIN actual}

\* The runs of the pass: what it returns, the calls of env.AliasFunc it made,
\* and whether it panics instead of returning.  Without an AliasFunc
\* resolvAliasFunc returns before any call in the visit of the command nodes,
\* while the function handed to ResolveAlias in the visit of the action nodes
\* calls the nil env.AliasFunc for the first alias it is given.
resolveAliasRuns(t, e) ==
    IF e.AliasFuncIsNil
    THEN {[tpl |-> t, env |-> e, err |-> NoErr, calls |-> {},
           panic |-> actionAliasCalls(t) # {}]}
    ELSE LET calls == UNION {{<<i, k>> : k \in AliasKeys(t[i])} : i \in 1..Len(t)}
         IN  UNION {
               {[tpl |-> resolveActionAliases(resolveCommandAliases(t, actual), listed),
                 env |-> e,
                 err |-> IF emptyResolv = <<>> THEN NoErr
                         ELSE Errorf("cannot resolve aliases", emptyResolv),
                 calls |-> aliasCalls(t, actual) \cup actionCalls(t, listed),
                 panic |-> FALSE] :
                    emptyResolv \in {c \o a : c \in emptyResolvOrders(t, actual),
                                              a \in actionEmptyResolvOrders(t, listed)}} :
               actual \in [calls -> AliasAnswers],
               listed \in [actionAliasCalls(t) -> AliasAnswers]}

\* What the pass returns, when it returns.
resolveAliasPass(t, e) ==
    {[tpl |-> run.tpl, env |-> run.env, err |-> run.err] :
        run \in {r \in resolveAliasRuns(t, e) : ~r.panic}}

----------------------------------------------------------------------------
\* Pass 8: failOnUnresolvedHoles

unresolvedHolesOrders(t) ==
    appendOrders(
        [i \in 1..Len(t) |->
            IF IsCommand(t[i])
            THEN {[j \in 1..Len(p) |-> t[i].Holes[p[j]]] : p \in Perms(DOMAIN t[i].Holes)}
            ELSE {<<>>}],
        1)

failOnUnresolvedHoles(t, e) ==
    {[tpl |-> t, env |-> e,
      err |-> IF unresolved = <<>> THEN NoErr
              ELSE Errorf("template contains unresolved holes", unresolved)] :
        unresolved \in unresolvedHolesOrders(t)}

----------------------------------------------------------------------------
\* Pass 9: failOnUnresolvedAlias

unresolvedAliasOrders(t) ==
    appendOrders(
        [i \in 1..Len(t) |->
            {[j \in 1..Len(p) |-> t[i].Params[p[j]]] : p \in Perms(AliasKeys(t[i]))}],
        1)

failOnUnresolvedAlias(t, e) ==
    {[tpl |-> t, env |-> e,
      err |-> IF unresolved = <<>> THEN NoErr
              ELSE Errorf("template contains unresolved alias", unresolved)] :
        unresolved \in unresolvedAliasOrders(t)}

----------------------------------------------------------------------------
\* Compile and the pipelines

LenientCompileMode ==
    << "resolveAgainstDefinitions",
       "checkInvalidReferenceDeclarations",
       "resolveHolesPass",
       "resolveMissingHolesPass",
       "replaceVariableValuePass",
       "removeValueStatementsPass",
       "resolveAliasPass" >>

NormalCompileMode ==
    LenientCompileMode \o <<"failOnUnresolvedHoles", "failOnUnresolvedAlias">>

\* Calling the compileFunc named pass.
PassResults(pass, t, e) ==
    CASE pass = "resolveAgainstDefinitions" -> resolveAgainstDefinitions(t, e)
      [] pass = "checkInvalidReferenceDeclarations" -> checkInvalidReferenceDeclarations(t, e)
      [] pass = "resolveHolesPass" -> resolveHolesPass(t, e)
      [] pass = "resolveMissingHolesPass" -> resolveMissingHolesPass(t, e)
      [] pass = "replaceVariableValuePass" -> replaceVariableValuePass(t, e)
      [] pass = "removeValueStatementsPass" -> removeValueStatementsPass(t, e)
      [] pass = "resolveAliasPass" -> resolveAliasPass(t, e)
      [] pass = "failOnUnresolvedHoles" -> failOnUnresolvedHoles(t, e)
      [] pass = "failOnUnresolvedAlias" -> failOnUnresolvedAlias(t, e)

\* Mutant of CompilePasses: the lenient pipeline is the default.
CompilePassesLenientDefault(m) == IF Len(m) > 0 THEN m[1] ELSE LenientCompileMode

\* The passes Compile hands to newMultiPass.
CompilePasses(m) == IF Len(m) > 0 THEN m[1] ELSE NormalCompileMode

\* Mutant of AbortsOn: the loop goes on after a failing pass.
AbortsOnNever(e) == FALSE

\* multiPass.compile returns from inside the loop when a pass returned an error.
AbortsOn(e) == e # NoErr

Compile ==
    /\ pc = "Compile"
    /\ passes' = CompilePasses(mode)
    /\ idx' = 1
    /\ pc' = IF Len(passes') = 0 THEN "returned" ELSE "compile"
    /\ UNCHANGED <<tpl, env, mode, err, ran, given, prompted, asked, inputTpl>>
    /\ UNCHANGED exceptCompile

\* The loop of multiPass.compile is about to call `pass`.
Running(pass) ==
    /\ pc = "compile"
    /\ idx <= Len(passes)
    /\ passes[idx] = pass

\* The rest of the iteration, once the pass has returned r: the results are
\* assigned, and the loop returns on an error or goes on to the next pass.
Returned(pass, r) ==
    /\ tpl' = r.tpl
    /\ env' = r.env
    /\ err' = r.err
    /\ pc' = IF AbortsOn(r.err) \/ idx + 1 > Len(passes) THEN "returned" ELSE "compile"
    /\ idx' = idx + 1
    /\ ran' = Append(ran, pass)
    /\ given' = Append(given, [tpl |-> tpl, env |-> env])
    /\ inputTpl' = IF pass = "removeValueStatementsPass" THEN statementPointers(tpl)
                   ELSE inputTpl
    /\ UNCHANGED <<mode, passes>>
    /\ UNCHANGED exceptCompile

ResolveAgainstDefinitions ==
    /\ Running("resolveAgainstDefinitions")
    /\ \E r \in resolveAgainstDefinitions(tpl, env) :
          Returned("resolveAgainstDefinitions", r)
    /\ UNCHANGED <<prompted, asked>>

CheckInvalidReferenceDeclarations ==
    /\ Running("checkInvalidReferenceDeclarations")
    /\ \E r \in checkInvalidReferenceDeclarations(tpl, env) :
          Returned("checkInvalidReferenceDeclarations", r)
    /\ UNCHANGED <<prompted, asked>>

ResolveHolesPass ==
    /\ Running("resolveHolesPass")
    /\ \E r \in resolveHolesPass(tpl, env) : Returned("resolveHolesPass", r)
    /\ UNCHANGED <<prompted, asked>>

ResolveMissingHolesPass ==
    /\ Running("resolveMissingHolesPass")
    /\ \E r \in resolveMissingHolesPass(tpl, env) : Returned("resolveMissingHolesPass", r)
    /\ prompted' = prompted \o missingHolesCalls(tpl, env)
    /\ UNCHANGED asked

ReplaceVariableValuePass ==
    /\ Running("replaceVariableValuePass")
    /\ \E r \in replaceVariableValuePass(tpl, env) : Returned("replaceVariableValuePass", r)
    /\ UNCHANGED <<prompted, asked>>

RemoveValueStatementsPass ==
    /\ Running("removeValueStatementsPass")
    /\ \E r \in removeValueStatementsPass(tpl, env) : Returned("removeValueStatementsPass", r)
    /\ UNCHANGED <<prompted, asked>>

ResolveAliasPass ==
    /\ Running("resolveAliasPass")
    /\ \E run \in resolveAliasRuns(tpl, env) :
          IF run.panic
          THEN /\ pc' = "panicked"
               /\ UNCHANGED <<tpl, env, mode, passes, idx, err, ran, given, asked, inputTpl>>
               /\ UNCHANGED exceptCompile
          ELSE /\ Returned("resolveAliasPass",
                           [tpl |-> run.tpl, env |-> run.env, err |-> run.err])
               /\ asked' = asked \cup run.calls
    /\ UNCHANGED prompted

FailOnUnresolvedHoles ==
    /\ Running("failOnUnresolvedHoles")
    /\ \E r \in failOnUnresolvedHoles(tpl, env) : Returned("failOnUnresolvedHoles", r)
    /\ UNCHANGED <<prompted, asked>>

FailOnUnresolvedAlias ==
    /\ Running("failOnUnresolvedAlias")
    /\ \E r \in failOnUnresolvedAlias(tpl, env) : Returned("failOnUnresolvedAlias", r)
    /\ UNCHANGED <<prompted, asked>>

----------------------------------------------------------------------------
\* Inputs of Compile

\* Bounds on the templates handed to Compile.
MaxStmts == 3
MaxCmds == 2

create == <<"c">>       \* an action
subnet == <<"s">>       \* an entity that has a definition
policy == <<"p">>       \* an entity that has none
cidr == <<"c">>         \* param keys
name == <<"n">>
bogus == <<"x">>
identA == <<"a">>       \* identifiers of assignments
identB == <<"b">>
holeG == <<"g">>        \* hole names
holeH == <<"h">>
literal == <<"v">>      \* a literal param value
literal10 == <<"1", "0">>   \* another literal
filler == <<"w">>       \* a filler value

\* Env as NewEnv() returns it.
NewEnv ==
    [Fillers |-> EmptyMap,
     DefLookupFunc |-> [isNil |-> TRUE, table |-> EmptyMap],
     AliasFuncIsNil |-> TRUE,
     MissingHolesFuncIsNil |-> TRUE,
     ResolvedReferences |-> EmptyMap,
     processedFillers |-> EmptyMap]

\* Definition oracles: create subnet with required cidr and extra name, or with
\* both keys required.
CidrRequired == Only(create \o subnet, [Required |-> <<cidr>>, Extra |-> <<name>>])

BothRequired == Only(create \o subnet, [Required |-> <<cidr, name>>, Extra |-> <<>>])

WithDefinitions(e, table) == [e EXCEPT !.DefLookupFunc = [isNil |-> FALSE, table |-> table]]

\* The templates of one to n statements of pool.
Templates(pool, n) == UNION {[1..k -> pool] : k \in 1..n}

Modes == {<<>>, <<LenientCompileMode>>, <<NormalCompileMode>>}

Inputs(templates, envs, modes) ==
    {[tpl |-> t, env |-> e, mode |-> m] : t \in templates, e \in envs, m \in modes}

\* Commands against the definitions: cidr absent, a param, a reference or a
\* hole, alone or next to a hole written at the key subnet.cidr; cidr a param
\* next to an extra key or an unexpected key (as a param or as a reference);
\* a command whose entity has no definition; and an assignment of a literal.
DefinitionCommands ==
    {CommandStmt(create, subnet, pc1, rc1, hc1 @@ hc2) :
        <<pc1, rc1, hc1>> \in {<<EmptyMap, EmptyMap, EmptyMap>>,
                             <<Only(cidr, literal), EmptyMap, EmptyMap>>,
                             <<EmptyMap, Only(cidr, identA), EmptyMap>>,
                             <<EmptyMap, EmptyMap, Only(cidr, holeH)>>},
        hc2 \in {EmptyMap, Only(Normalized(subnet, cidr), holeG)}}
    \cup {CommandStmt(create, subnet, Only(cidr, literal) @@ p, r, EmptyMap) :
            <<p, r>> \in {<<Only(name, literal), EmptyMap>>,
                          <<Only(bogus, literal), EmptyMap>>,
                          <<EmptyMap, Only(bogus, identA)>>}}
    \cup {CommandStmt(create, policy, EmptyMap, EmptyMap, EmptyMap)}
    \cup {DeclValueStmt(identA, literal, <<>>)}

DefinitionInputs ==
    Inputs(Templates(DefinitionCommands, MaxCmds),
           {NewEnv, WithDefinitions(NewEnv, CidrRequired), WithDefinitions(NewEnv, BothRequired)},
           {<<>>})

\* Statements for the reference passes: commands and assignments of commands
\* with cidr a literal or a reference, and assignments of a literal, of a hole
\* the fillers fill and of a hole nothing fills.
ReferenceStatements ==
    {CommandStmt(create, subnet, Only(cidr, literal), EmptyMap, EmptyMap)}
    \cup {CommandStmt(create, subnet, EmptyMap, Only(cidr, ref), EmptyMap) :
            ref \in {identA, identB}}
    \cup {DeclCommandStmt(identA, create, subnet, Only(cidr, literal), EmptyMap, EmptyMap)}
    \cup {DeclCommandStmt(id, create, subnet, EmptyMap, Only(cidr, identA), EmptyMap) :
            id \in {identA, identB}}
    \cup {DeclValueStmt(id, literal, <<>>) : id \in {identA, identB}}
    \cup {DeclValueStmt(identA, NIL, h) : h \in {holeG, holeH}}

ReferenceInputs ==
    Inputs(Templates(ReferenceStatements, MaxStmts),
           {[WithDefinitions(NewEnv, CidrRequired) EXCEPT !.Fillers = Only(holeH, filler)]},
           {<<>>})

\* Statements for the hole passes: commands with cidr absent, a param or the
\* hole h, and name absent or the hole g; and an assignment of the hole h.
HoleStatements ==
    {CommandStmt(create, subnet, p, EmptyMap, h1 @@ h2) :
        <<p, h1>> \in {<<EmptyMap, EmptyMap>>,
                       <<Only(cidr, literal), EmptyMap>>,
                       <<EmptyMap, Only(cidr, holeH)>>},
        h2 \in {EmptyMap, Only(name, holeG)}}
    \cup {DeclValueStmt(identA, NIL, holeH)}

HoleEnvs ==
    {[WithDefinitions(NewEnv, CidrRequired) EXCEPT
         !.Fillers = f, !.MissingHolesFuncIsNil = noCallback] :
        f \in {EmptyMap,
               Only(holeH, filler),
               Only(Normalized(subnet, cidr), filler) @@ Only(<<"z">>, filler)},
        noCallback \in BOOLEAN}

HoleInputs ==
    Inputs(Templates(HoleStatements, MaxCmds), HoleEnvs, {<<>>, <<LenientCompileMode>>})

\* Commands with alias params; `name=@b name={g}` leaves both a param and a
\* hole at the key name.
AliasCommands ==
    {CommandStmt(create, subnet, Only(cidr, c) @@ n, EmptyMap, h) :
        <<c, n, h>> \in {<<<<"@", "a">>, EmptyMap, EmptyMap>>,
                         <<<<"@", "a">>, Only(name, <<"@", "b">>), EmptyMap>>,
                         <<literal, Only(name, <<"@", "b">>), Only(name, holeG)>>}}

AliasInputs ==
    Inputs(Templates(AliasCommands, MaxCmds),
           {[WithDefinitions(NewEnv, CidrRequired) EXCEPT !.AliasFuncIsNil = noResolver] :
               noResolver \in BOOLEAN},
           Modes)

\* Action nodes, the statements of the lines with a list param: cidr a list of
\* a literal, the hole h and the alias a (no alias twice in a list); and a
\* command with an alias param.
ListValues ==
    {NewCompositeValue(l) :
        l \in {<<holeValue(holeH, NIL)>>,
               <<interfaceValue(literal), holeValue(holeH, NIL)>>,
               <<aliasValue(<<"a">>, NIL)>>,
               <<holeValue(holeH, NIL), aliasValue(<<"a">>, NIL)>>}}

ActionStatements ==
    {ActionStmt(create, subnet, Only(cidr, l)) : l \in ListValues}
    \cup {CommandStmt(create, subnet, Only(cidr, <<"@", "a">>), EmptyMap, EmptyMap)}

ActionInputs ==
    Inputs(Templates(ActionStatements, MaxCmds),
           {[WithDefinitions(NewEnv, CidrRequired) EXCEPT
                !.AliasFuncIsNil = noResolver, !.MissingHolesFuncIsNil = noCallback] :
               noResolver \in BOOLEAN, noCallback \in BOOLEAN},
           {<<>>, <<LenientCompileMode>>})

\* Statements with a reference inside a list: `create subnet cidr=[$a]` and
\* `create subnet cidr=[v,$b]`, next to an assignment of a and a command with
\* the reference $a as a param.
ListReferenceStatements ==
    {ActionStmt(create, subnet, Only(cidr, NewCompositeValue(l))) :
        l \in {<<referenceValue(identA, NIL)>>,
               <<interfaceValue(literal), referenceValue(identB, NIL)>>}}
    \cup {CommandStmt(create, subnet, EmptyMap, Only(cidr, identA), EmptyMap),
          DeclValueStmt(identA, literal, <<>>)}

ListReferenceInputs ==
    Inputs(Templates(ListReferenceStatements, MaxCmds),
           {WithDefinitions(NewEnv, CidrRequired)},
           {<<>>})

\* The builder (build.go) on one command line `create subnet k=v ...`: the
\* grammar's Params is Param+, and every Param runs addParamKey and then the
\* action of its value, on the command the line started.

\* AST.addParam with currentKey = key
addParam(cmd, key, i) == [cmd EXCEPT !.Params = MapPut(@, key, i)]

\* AST.addAliasParam
addAliasParam(cmd, key, text) == addParam(cmd, key, <<"@">> \o text)

\* AST.addParamRefValue, outside a list
addParamRefValue(cmd, key, text) == [cmd EXCEPT !.Refs = MapPut(@, key, text)]

\* AST.addParamHoleValue, outside a list
addParamHoleValue(cmd, key, text) == [cmd EXCEPT !.Holes = MapPut(@, key, text)]

\* The Params of a line, in order: p.kind tells the rule that matched the value.
RECURSIVE addParams(_, _)
addParams(cmd, ps) ==
    IF ps = <<>> THEN cmd
    ELSE LET p == Head(ps)
         IN  addParams(
                 CASE p.kind = "OtherParamValue" -> addParam(cmd, p.key, p.text)
                   [] p.kind = "AliasValue" -> addAliasParam(cmd, p.key, p.text)
                   [] p.kind = "RefValue" -> addParamRefValue(cmd, p.key, p.text)
                   [] p.kind = "HoleValue" -> addParamHoleValue(cmd, p.key, p.text),
                 Tail(ps))

\* The statement built for the line `action entity ps`.
ParsedCommand(action, entity, ps) ==
    addParams(CommandStmt(action, entity, EmptyMap, EmptyMap, EmptyMap), ps)

\* Bound on the Params of a parsed line.
MaxParams == 2

\* Lines with one to MaxParams params, each at the key cidr: `cidr=v`,
\* `cidr=@a`, `cidr=$a`, `cidr={h}`, and lines that repeat the key.
ParamTokens ==
    {[key |-> cidr, kind |-> "OtherParamValue", text |-> literal],
     [key |-> cidr, kind |-> "AliasValue", text |-> <<"a">>],
     [key |-> cidr, kind |-> "RefValue", text |-> identA],
     [key |-> cidr, kind |-> "HoleValue", text |-> holeH]}

ParsedCommands ==
    {ParsedCommand(create, subnet, ps) : ps \in UNION {[1..n -> ParamTokens] : n \in 1..MaxParams}}

\* The parsed line after the assignment `a = v`, so that $a is defined.
ParsedInputs ==
    Inputs({<<DeclValueStmt(identA, literal, <<>>), c>> : c \in ParsedCommands},
           {[WithDefinitions(NewEnv, CidrRequired) EXCEPT !.Fillers = f] :
               f \in {EmptyMap, Only(holeH, filler)}},
           {<<>>, <<LenientCompileMode>>})

CompileInputs ==
    DefinitionInputs \cup ReferenceInputs \cup HoleInputs \cup AliasInputs \cup ActionInputs
        \cup ParsedInputs \cup ListReferenceInputs
\* A nil *Statement, a nil *listValueBuilder, and a source line that has
\* written nothing.
NoStmt == Stmt("nil", <<>>, "", <<>>, <<>>, EmptyMap, EmptyMap, EmptyMap, NIL, <<>>)

NoListBuilder == [isNil |-> TRUE, vals |-> <<>>]

NoLine == [kind |-> "", keys |-> {}, lists |-> {}, lastLists |-> {}]

BuildIdle ==
    /\ tokens = <<>>
    /\ Statements = <<>>
    /\ currentStatement = NoStmt
    /\ currentActionStatement = NoStmt
    /\ currentKey = <<>>
    /\ currentListBuilder = NoListBuilder
    /\ executed = ""
    /\ thisLine = NoLine
    /\ lineLog = <<>>
    /\ statementsBefore = <<>>

CompareIdle ==
    /\ localGraph = {}
    /\ remoteGraph = {}
    /\ rootOk = TRUE
    /\ maxCount = 0
    /\ processing = <<>>
    /\ pending = {}
    /\ comparing = "returned"
    /\ allextras = {}
    /\ allmissings = {}
    /\ allcommons = {}

\* The variables of a specification while another one runs: no Compile is
\* under way, no value is under test, no parse is under way.
CompileIdle ==
    /\ tpl = <<>>
    /\ env = NewEnv
    /\ mode = <<>>
    /\ passes = <<>>
    /\ idx = 1
    /\ err = NoErr
    /\ pc = "returned"
    /\ ran = <<>>
    /\ given = <<>>
    /\ prompted = <<>>
    /\ asked = {}
    /\ inputTpl = <<>>

ValueIdle ==
    /\ tcaseVal = interfaceValue(literal)
    /\ holesFillers = EmptyMap
    /\ holesBefore = {}
    /\ processedHoles = EmptyMap
    /\ fillCount = 0
    /\ lastCall = ""

ParseIdle ==
    /\ buffer = 0
    /\ position = 0
    /\ tokenIndex = 0
    /\ max = [pegRule |-> "ruleUnknown", begin |-> 0, end |-> 0]
    /\ saved = <<>>
    /\ parsed = "matched"
    /\ parseError = [pegRule |-> "ruleUnknown", begin |-> 0, end |-> 0]
    /\ added = {}
    /\ maxBefore = [pegRule |-> "ruleUnknown", begin |-> 0, end |-> 0]


----------------------------------------------------------------------------
\* The specification

Init ==
    /\ \E in \in CompileInputs :
          /\ tpl = in.tpl
          /\ env = in.env
          /\ mode = in.mode
    /\ passes = <<>>
    /\ idx = 1
    /\ err = NoErr
    /\ pc = "Compile"
    /\ ran = <<>>
    /\ given = <<>>
    /\ prompted = <<>>
    /\ asked = {}
    /\ inputTpl = <<>>
    /\ ValueIdle
    /\ ParseIdle
    /\ BuildIdle
    /\ CompareIdle

Next ==
    \/ Compile
    \/ ResolveAgainstDefinitions
    \/ CheckInvalidReferenceDeclarations
    \/ ResolveHolesPass
    \/ ResolveMissingHolesPass
    \/ ReplaceVariableValuePass
    \/ RemoveValueStatementsPass
    \/ ResolveAliasPass
    \/ FailOnUnresolvedHoles
    \/ FailOnUnresolvedAlias

Spec == Init /\ [][Next]_vars

----------------------------------------------------------------------------
\* The specification of the composite values on their own: a value of any
\* variant gets ProcessHoles with a map of fillers, up to MaxFills times.

\* Bounds on the values and on the calls.
MaxLen == 2
MaxFills == 2

\* The values that are no list: the holes g and h, unfilled or filled, a
\* literal, the references a and b and the aliases a and b.
ScalarValues ==
    {holeValue(holeG, NIL), holeValue(holeG, literal), holeValue(holeH, NIL),
     interfaceValue(literal),
     referenceValue(identA, NIL), referenceValue(identB, NIL),
     aliasValue(<<"a">>, NIL), aliasValue(<<"b">>, NIL)}

\* ["test", 10, {myhole}, $myref] of TestCompositeValues, with g for myhole
\* and a for myref.
TestList ==
    NewCompositeValue(<<interfaceValue(literal), interfaceValue(literal10),
                        holeValue(holeG, NIL), referenceValue(identA, NIL)>>)

\* The lists of one to MaxLen scalar values, a list inside a list, and the
\* list of the test.
CompositeValues ==
    ScalarValues
    \cup {NewCompositeValue(l) : l \in UNION {[1..n -> ScalarValues] : n \in 1..MaxLen}}
    \cup {NewCompositeValue(<<holeValue(holeG, NIL),
                              NewCompositeValue(<<holeValue(holeH, NIL)>>)>>),
          TestList}

\* The maps of fillers: any of g and h, each with a value or nil.
FillerMaps == UNION {[names -> {filler, NIL}] : names \in SUBSET {holeG, holeH}}

ValueInit ==
    /\ tcaseVal \in CompositeValues
    /\ holesFillers = EmptyMap
    /\ holesBefore = {}
    /\ processedHoles = EmptyMap
    /\ fillCount = 0
    /\ lastCall = ""
    /\ CompileIdle
    /\ ParseIdle
    /\ BuildIdle
    /\ CompareIdle

\* tcase.val.ProcessHoles(tcase.holesFillers)
FillHoles ==
    /\ fillCount < MaxFills
    /\ \E m \in FillerMaps :
          /\ holesFillers' = m
          /\ holesBefore' = SeqRange(valueGetHoles(tcaseVal))
          /\ tcaseVal' = valueProcessHoles(tcaseVal, m).val
          /\ processedHoles' = valueProcessHoles(tcaseVal, m).processed
    /\ fillCount' = fillCount + 1
    /\ lastCall' = "ProcessHoles"
    /\ UNCHANGED exceptValue

\* The maps of resolved references: any of a and b, each with a value or nil.
RefMaps == UNION {[names -> {literal, NIL}] : names \in SUBSET {identA, identB}}

\* val.ProcessRefs(fills), for the values that are WithRefs
FillRefs ==
    /\ fillCount < MaxFills
    /\ IsWithRefs(tcaseVal)
    /\ \E m \in RefMaps : tcaseVal' = valueProcessRefs(tcaseVal, m)
    /\ fillCount' = fillCount + 1
    /\ lastCall' = "ProcessRefs"
    /\ UNCHANGED <<holesFillers, holesBefore, processedHoles>>
    /\ UNCHANGED exceptValue

\* val.ResolveAlias(resolvFunc), for the values that are WithAlias
ResolveAlias ==
    /\ fillCount < MaxFills
    /\ IsWithAlias(tcaseVal)
    /\ \E resolvFunc \in [{<<"a">>, <<"b">>} -> AliasAnswers] :
          tcaseVal' = valueResolveAlias(tcaseVal, resolvFunc)
    /\ fillCount' = fillCount + 1
    /\ lastCall' = "ResolveAlias"
    /\ UNCHANGED <<holesFillers, holesBefore, processedHoles>>
    /\ UNCHANGED exceptValue

ValueNext == FillHoles \/ FillRefs \/ ResolveAlias

ValueSpec == ValueInit /\ [][ValueNext]_vars

----------------------------------------------------------------------------
\* The specification of the parser's bookkeeping (Peg.Init): the rule
\* closures save position and tokenIndex, match runes, hand the tokens of the
\* rules that matched to add, and restore position and tokenIndex when they
\* backtrack.

\* Bounds on the buffer, on the nesting of the rules and on the tokens added.
MaxRunes == 3
MaxDepth == 2
MaxTokens == 3

token32(rule, begin, end) == [pegRule |-> rule, begin |-> begin, end |-> end]

\* The rules whose tokens span text, and the rule of an action.
TextRules == {"rulePegText", "ruleParam"}

ruleAction0 == "ruleAction0"

\* Mutant of addMax: the last non-empty token is recorded.
addMaxLast(rule, begin, m) ==
    IF begin # position THEN token32(rule, begin, position) ELSE m

\* add: max after add(rule, begin), m being max before it.
addMax(rule, begin, m) ==
    IF begin # position /\ position > m.end THEN token32(rule, begin, position) ELSE m

\* p.reset() and the call of p.parse on a buffer of 0 to MaxRunes runes.
ParseInit ==
    /\ buffer \in 0..MaxRunes
    /\ position = 0
    /\ tokenIndex = 0
    /\ max = token32("ruleUnknown", 0, 0)
    /\ saved = <<>>
    /\ parsed = "parse"
    /\ parseError = token32("ruleUnknown", 0, 0)
    /\ added = {}
    /\ maxBefore = token32("ruleUnknown", 0, 0)
    /\ CompileIdle
    /\ ValueIdle
    /\ BuildIdle
    /\ CompareIdle

\* positionN, tokenIndexN := position, tokenIndex
Enter ==
    /\ parsed = "parse"
    /\ Len(saved) < MaxDepth
    /\ saved' = Append(saved, [position |-> position, tokenIndex |-> tokenIndex])
    /\ maxBefore' = max
    /\ UNCHANGED <<buffer, position, tokenIndex, max, parsed, parseError, added>>
    /\ UNCHANGED exceptParse

\* A rune test that holds (matchDot, or buffer[position] compared with a
\* rune): position++.  The rune at buffer is endSymbol, which no test accepts.
MatchRune ==
    /\ parsed = "parse"
    /\ position < buffer
    /\ position' = position + 1
    /\ maxBefore' = max
    /\ UNCHANGED <<buffer, tokenIndex, max, saved, parsed, parseError, added>>
    /\ UNCHANGED exceptParse

\* add(rule, positionN) at the end of a rule that matched.
AddToken ==
    /\ parsed = "parse"
    /\ saved # <<>>
    /\ tokenIndex < MaxTokens
    /\ \E rule \in TextRules :
          LET begin == saved[Len(saved)].position
          IN  /\ max' = addMax(rule, begin, max)
              /\ added' = IF begin # position THEN added \cup {position} ELSE added
    /\ tokenIndex' = tokenIndex + 1
    /\ saved' = SubSeq(saved, 1, Len(saved) - 1)
    /\ maxBefore' = max
    /\ UNCHANGED <<buffer, position, parsed, parseError>>
    /\ UNCHANGED exceptParse

\* add(ruleActionN, position)
AddAction ==
    /\ parsed = "parse"
    /\ tokenIndex < MaxTokens
    /\ max' = addMax(ruleAction0, position, max)
    /\ tokenIndex' = tokenIndex + 1
    /\ maxBefore' = max
    /\ UNCHANGED <<buffer, position, saved, parsed, parseError, added>>
    /\ UNCHANGED exceptParse

\* position, tokenIndex = positionN, tokenIndexN
Backtrack ==
    /\ parsed = "parse"
    /\ saved # <<>>
    /\ position' = saved[Len(saved)].position
    /\ tokenIndex' = saved[Len(saved)].tokenIndex
    /\ saved' = SubSeq(saved, 1, Len(saved) - 1)
    /\ maxBefore' = max
    /\ UNCHANGED <<buffer, max, parsed, parseError, added>>
    /\ UNCHANGED exceptParse

\* An alternative or a repetition matched: its positionN is dropped.
Proceed ==
    /\ parsed = "parse"
    /\ saved # <<>>
    /\ saved' = SubSeq(saved, 1, Len(saved) - 1)
    /\ maxBefore' = max
    /\ UNCHANGED <<buffer, position, tokenIndex, max, parsed, parseError, added>>
    /\ UNCHANGED exceptParse

\* p.parse: matches := p.rules[r](); nil when it matched, &parseError{p, max}
\* when not.
ParseReturns ==
    /\ parsed = "parse"
    /\ saved = <<>>
    /\ \E matches \in BOOLEAN :
          /\ parsed' = IF matches THEN "matched" ELSE "failed"
          /\ parseError' = IF matches THEN parseError ELSE max
    /\ maxBefore' = max
    /\ UNCHANGED <<buffer, position, tokenIndex, max, saved, added>>
    /\ UNCHANGED exceptParse

ParseNext ==
    \/ Enter
    \/ MatchRune
    \/ AddToken
    \/ AddAction
    \/ Backtrack
    \/ Proceed
    \/ ParseReturns

ParseSpec == ParseInit /\ [][ParseNext]_vars

----------------------------------------------------------------------------
\* The specification of the builder (build.go) under Peg.Execute: the tokens
\* of the actions of a parsed script run in document order, each calling its
\* builder method.

\* Bound on the lines of a script.
MaxLines == 2

Tok(rule, text) == [rule |-> rule, text |-> text]

\* The tokens of a Value: OtherParamValue Action13, RefValue Action14,
\* HoleValue Action9, AliasValue Action10.
OtherParamValue(text) == <<Tok("addParamValue", text)>>

RefValue(text) == <<Tok("addParamRefValue", text)>>

HoleValue(text) == <<Tok("addParamHoleValue", text)>>

AliasValue(text) == <<Tok("addAliasParam", text)>>

\* ListValue <- Action7 '[' Value (',' Value)* ']' Action8
ListValue(values) ==
    <<Tok("addFirstValueInList", <<>>)>> \o values \o <<Tok("lastValueInList", <<>>)>>

\* Param <- <Identifier> Action6 Equal CompositeValue
Param(key, value) == <<Tok("addParamKey", key)>> \o value

\* The Params of the lines: none; cidr a literal, a reference, a hole, an
\* alias; cidr a list of a literal, of a reference and a hole, of an alias;
\* cidr a reference, a hole or a literal next to name a list; and cidr
\* written twice, as a list and as a literal.
LineParams ==
    {<<>>,
     Param(cidr, OtherParamValue(literal)),
     Param(cidr, RefValue(identA)),
     Param(cidr, HoleValue(holeH)),
     Param(cidr, AliasValue(<<"a">>)),
     Param(cidr, ListValue(OtherParamValue(literal))),
     Param(cidr, ListValue(RefValue(identA) \o HoleValue(holeH))),
     Param(cidr, ListValue(AliasValue(<<"a">>))),
     Param(cidr, RefValue(identA)) \o Param(name, ListValue(OtherParamValue(literal))),
     Param(cidr, HoleValue(holeH)) \o Param(name, ListValue(OtherParamValue(literal))),
     Param(cidr, OtherParamValue(literal)) \o Param(name, ListValue(OtherParamValue(literal))),
     Param(cidr, ListValue(OtherParamValue(literal))) \o Param(cidr, OtherParamValue(literal)),
     Param(cidr, OtherParamValue(literal)) \o Param(cidr, ListValue(OtherParamValue(literal)))}

\* CmdExpr <- <Action> Action3 <Entity> Action4 Params? Action5
CmdExpr(params) ==
    <<Tok("addAction", create), Tok("addEntity", subnet)>> \o params \o <<Tok("LineDone", <<>>)>>

\* Declaration <- <Identifier> Action0 Equal (CmdExpr / ValueExpr), and
\* ValueExpr <- Action1 CompositeValue Action2
DeclarationOfCmdExpr(ident, params) ==
    <<Tok("addDeclarationIdentifier", ident)>> \o CmdExpr(params)

DeclarationOfValueExpr(ident, value) ==
    <<Tok("addDeclarationIdentifier", ident), Tok("addValue", <<>>)>> \o value
        \o <<Tok("LineDone", <<>>)>>

\* BlankLine <- WhiteSpacing EndOfLine Action19, and a `//` comment (Action18)
BlankLine == <<Tok("LineDone", <<>>)>>

\* The lines of the scripts.
Lines ==
    {CmdExpr(ps) : ps \in LineParams}
    \cup {DeclarationOfCmdExpr(identA, ps) : ps \in LineParams}
    \cup {DeclarationOfValueExpr(identB, v) :
            v \in {OtherParamValue(literal), HoleValue(holeH),
                   ListValue(OtherParamValue(literal))}}
    \cup {BlankLine}

\* The tokens of the scripts of one to MaxLines lines.
Scripts == {Flatten(ls) : ls \in UNION {[1..n -> Lines] : n \in 1..MaxLines}}

BuildInit ==
    /\ tokens \in Scripts
    /\ Statements = <<>>
    /\ currentStatement = NoStmt
    /\ currentActionStatement = NoStmt
    /\ currentKey = <<>>
    /\ currentListBuilder = NoListBuilder
    /\ executed = ""
    /\ thisLine = NoLine
    /\ lineLog = <<>>
    /\ statementsBefore = <<>>
    /\ CompileIdle
    /\ ValueIdle
    /\ ParseIdle
    /\ CompareIdle

\* AST.currentDeclaration, currentCommand, currentAction and
\* currentDeclarationValue are not nil.
currentDeclaration == currentStatement.Node = "DeclarationNode"

currentCommand == IsCommand(currentStatement)

currentAction == currentActionStatement.Node = "ActionNode"

currentDeclarationValue == IsValue(currentStatement)

\* Execute is at the token of `rule`: the loop takes it, and the histories
\* note it.
Executes(rule) ==
    /\ tokens # <<>>
    /\ Head(tokens).rule = rule
    /\ tokens' = Tail(tokens)
    /\ executed' = rule
    /\ statementsBefore' = Statements
    /\ UNCHANGED exceptBuild

text == Head(tokens).text

\* AST.addDeclarationIdentifier
addDeclarationIdentifier ==
    /\ Executes("addDeclarationIdentifier")
    /\ currentStatement' =
          Stmt("DeclarationNode", text, "", <<>>, <<>>, EmptyMap, EmptyMap, EmptyMap, NIL, <<>>)
    /\ thisLine' = [thisLine EXCEPT !.kind = "declaration"]
    /\ UNCHANGED <<Statements, currentActionStatement, currentKey, currentListBuilder, lineLog>>

\* AST.addAction
addAction ==
    /\ Executes("addAction")
    /\ IF currentDeclaration
       THEN /\ currentStatement' =
                  [currentStatement EXCEPT
                      !.Expr = "CommandNode", !.Action = text, !.Entity = <<>>,
                      !.Params = EmptyMap, !.Refs = EmptyMap, !.Holes = EmptyMap]
            /\ UNCHANGED currentActionStatement
       ELSE /\ currentStatement' =
                  IF currentCommand THEN [currentStatement EXCEPT !.Action = text]
                  ELSE CommandStmt(text, <<>>, EmptyMap, EmptyMap, EmptyMap)
            /\ currentActionStatement' =
                  IF currentAction THEN [currentActionStatement EXCEPT !.Action = text]
                  ELSE ActionStmt(text, <<>>, EmptyMap)
    /\ thisLine' = [thisLine EXCEPT !.kind = IF currentDeclaration THEN @ ELSE "command"]
    /\ UNCHANGED <<Statements, currentKey, currentListBuilder, lineLog>>

\* AST.addEntity: node.Entity = text dereferences currentCommand().
addEntity ==
    /\ Executes("addEntity")
    /\ currentCommand
    /\ currentStatement' = [currentStatement EXCEPT !.Entity = text]
    /\ currentActionStatement' =
          IF currentAction THEN [currentActionStatement EXCEPT !.Entity = text]
          ELSE currentActionStatement
    /\ UNCHANGED <<Statements, currentKey, currentListBuilder, thisLine, lineLog>>

\* AST.addValue
addValue ==
    /\ Executes("addValue")
    /\ currentStatement' =
          IF currentDeclaration
          THEN [currentStatement EXCEPT !.Expr = "ValueNode", !.Value = NIL, !.Hole = <<>>]
          ELSE currentStatement
    /\ UNCHANGED <<Statements, currentActionStatement, currentKey, currentListBuilder,
                   thisLine, lineLog>>

\* AST.actionNodeContainsList
actionNodeContainsList(action) ==
    \E p \in DOMAIN action.ActionParams : action.ActionParams[p].kind = "listValue"

\* Mutant of appendedByLineDone: the CommandNode statement is appended whenever
\* there is one.
appendedByLineDoneCommandFirst(st, actionSt) ==
    IF st.Node # "nil" THEN <<st>>
    ELSE IF actionSt.Node # "nil" /\ actionNodeContainsList(actionSt) THEN <<actionSt>>
    ELSE <<>>

\* AST.LineDone: what it appends to a.Statements.
appendedByLineDone(st, actionSt) ==
    IF actionSt.Node # "nil" /\ actionSt.Node = "ActionNode" /\ actionNodeContainsList(actionSt)
    THEN <<actionSt>>
    ELSE IF st.Node # "nil" THEN <<st>>
    ELSE <<>>

\* AST.LineDone
LineDone ==
    /\ Executes("LineDone")
    /\ Statements' = Statements \o appendedByLineDone(currentStatement, currentActionStatement)
    /\ currentStatement' = NoStmt
    /\ currentKey' = <<>>
    /\ currentActionStatement' = NoStmt
    /\ currentListBuilder' = NoListBuilder
    /\ lineLog' = Append(lineLog,
                         [kind |-> thisLine.kind, keys |-> thisLine.keys,
                          lists |-> thisLine.lists, lastLists |-> thisLine.lastLists,
                          at |-> IF Len(Statements') > Len(Statements)
                                 THEN Len(Statements') ELSE 0,
                          appended |-> Len(Statements') - Len(Statements)])
    /\ thisLine' = NoLine

\* AST.addParamKey: the maps are made, and currentKey = text.
addParamKey ==
    /\ Executes("addParamKey")
    /\ currentCommand
    /\ currentKey' = text
    /\ thisLine' = [thisLine EXCEPT !.keys = @ \cup {text}, !.lastLists = @ \ {text}]
    /\ UNCHANGED <<Statements, currentStatement, currentActionStatement, currentListBuilder,
                   lineLog>>

\* AST.addFirstValueInList
addFirstValueInList ==
    /\ Executes("addFirstValueInList")
    /\ currentListBuilder' = [isNil |-> FALSE, vals |-> <<>>]
    /\ thisLine' = [thisLine EXCEPT !.lists = @ \cup {currentKey},
                                    !.lastLists = @ \cup {currentKey}]
    /\ UNCHANGED <<Statements, currentStatement, currentActionStatement, currentKey, lineLog>>

\* AST.lastValueInList
lastValueInList ==
    /\ Executes("lastValueInList")
    /\ currentActionStatement' =
          IF currentAction /\ ~currentListBuilder.isNil
          THEN [currentActionStatement EXCEPT
                   !.ActionParams = MapPut(@, currentKey,
                                           NewCompositeValue(currentListBuilder.vals))]
          ELSE currentActionStatement
    /\ currentListBuilder' = NoListBuilder
    /\ UNCHANGED <<Statements, currentStatement, currentKey, thisLine, lineLog>>

\* AST.addParam(i): the statements after it.
statementWithParam(st, i) ==
    IF IsCommand(st) THEN [st EXCEPT !.Params = MapPut(@, currentKey, i)]
    ELSE [st EXCEPT !.Value = i]

actionStatementWithParam(actionSt, i) ==
    IF actionSt.Node = "ActionNode"
    THEN [actionSt EXCEPT !.ActionParams = MapPut(@, currentKey, interfaceValue(i))]
    ELSE actionSt

\* listValueBuilder.add
listValueBuilderAdd(c, v) == [c EXCEPT !.vals = Append(@, v)]

\* AST.addParamValue (and addStringValue), for a text that is no number:
\* varDecl.Value = i dereferences currentDeclarationValue().
addParamValue ==
    /\ Executes("addParamValue")
    /\ IF ~currentListBuilder.isNil
       THEN /\ currentListBuilder' = listValueBuilderAdd(currentListBuilder, interfaceValue(text))
            /\ UNCHANGED <<currentStatement, currentActionStatement>>
       ELSE /\ currentCommand \/ currentDeclarationValue
            /\ currentStatement' = statementWithParam(currentStatement, text)
            /\ currentActionStatement' = actionStatementWithParam(currentActionStatement, text)
            /\ UNCHANGED currentListBuilder
    /\ UNCHANGED <<Statements, currentKey, thisLine, lineLog>>

\* AST.addAliasParam: a.addParam("@" + text), whatever currentListBuilder is.
ExecuteAddAliasParam ==
    /\ Executes("addAliasParam")
    /\ currentCommand \/ currentDeclarationValue
    /\ currentStatement' = statementWithParam(currentStatement, <<"@">> \o text)
    /\ currentActionStatement' =
          actionStatementWithParam(currentActionStatement, <<"@">> \o text)
    /\ UNCHANGED <<Statements, currentKey, currentListBuilder, thisLine, lineLog>>

\* AST.addParamRefValue
ExecuteAddParamRefValue ==
    /\ Executes("addParamRefValue")
    /\ IF ~currentListBuilder.isNil
       THEN /\ currentListBuilder' =
                  listValueBuilderAdd(currentListBuilder, referenceValue(text, NIL))
            /\ UNCHANGED currentStatement
       ELSE /\ currentStatement' =
                  IF currentCommand
                  THEN [currentStatement EXCEPT !.Refs = MapPut(@, currentKey, text)]
                  ELSE currentStatement
            /\ UNCHANGED currentListBuilder
    /\ UNCHANGED <<Statements, currentActionStatement, currentKey, thisLine, lineLog>>

\* AST.addParamHoleValue: varDecl.Hole = text dereferences
\* currentDeclarationValue().
ExecuteAddParamHoleValue ==
    /\ Executes("addParamHoleValue")
    /\ IF ~currentListBuilder.isNil
       THEN /\ currentListBuilder' = listValueBuilderAdd(currentListBuilder, holeValue(text, NIL))
            /\ UNCHANGED currentStatement
       ELSE /\ currentCommand \/ currentDeclarationValue
            /\ currentStatement' =
                  IF currentCommand
                  THEN [currentStatement EXCEPT !.Holes = MapPut(@, currentKey, text)]
                  ELSE [currentStatement EXCEPT !.Hole = text]
            /\ UNCHANGED currentListBuilder
    /\ UNCHANGED <<Statements, currentActionStatement, currentKey, thisLine, lineLog>>

BuildNext ==
    \/ addDeclarationIdentifier
    \/ addAction
    \/ addEntity
    \/ addValue
    \/ LineDone
    \/ addParamKey
    \/ addFirstValueInList
    \/ lastValueInList
    \/ addParamValue
    \/ ExecuteAddAliasParam
    \/ ExecuteAddParamRefValue
    \/ ExecuteAddParamHoleValue

BuildSpec == BuildInit /\ [][BuildNext]_vars

----------------------------------------------------------------------------
\* The specification of rdf.Compare: one goroutine that sends to and receives
\* from the buffered channel processing.

\* Bound on the triples of a graph.
MaxTriples == 3

\* The nodes: the root /region<rootID> and two more.
rootNode == "root"

Nodes == {rootNode, "a", "b"}

\* The parent-of triples there can be: <<subject, object>>.
ParentOf == {t \in Nodes \X Nodes : t[1] # t[2]}

\* The graphs of at most MaxTriples triples.
Graphs == {g \in SUBSET ParentOf : Cardinality(g) <= MaxTriples}

\* Graph.TriplesCount
TriplesCount(g) == Cardinality(g)

\* max
capacityOf(a, b) == IF a < b THEN b ELSE a

\* triplesForSubjectAndPredicate(graph, subject, parentOf)
triplesForSubjectAndPredicate(g, subject) == {t \in g : t[1] = subject}

CompareInit ==
    /\ localGraph \in Graphs
    /\ remoteGraph \in Graphs
    /\ rootOk \in BOOLEAN
    /\ maxCount = 0
    /\ processing = <<>>
    /\ pending = {}
    /\ comparing = "Compare"
    /\ allextras = {}
    /\ allmissings = {}
    /\ allcommons = {}
    /\ CompileIdle
    /\ ValueIdle
    /\ ParseIdle
    /\ BuildIdle

\* Lines 13-23: the three graphs, the root node (or the return of its error),
\* and the channel.
MakeProcessing ==
    /\ comparing = "Compare"
    /\ IF rootOk
       THEN /\ maxCount' = capacityOf(TriplesCount(localGraph), TriplesCount(remoteGraph))
            /\ comparing' = "sendRoot"
       ELSE /\ comparing' = "returned"
            /\ UNCHANGED maxCount
    /\ UNCHANGED <<localGraph, remoteGraph, rootOk, processing, pending,
                   allextras, allmissings, allcommons>>
    /\ UNCHANGED exceptCompare

\* processing <- rootNode: the send proceeds when the buffer has room (no
\* other goroutine receives from the channel).
SendRoot ==
    /\ comparing = "sendRoot"
    /\ Len(processing) < maxCount
    /\ processing' = Append(processing, rootNode)
    /\ comparing' = "loop"
    /\ UNCHANGED <<localGraph, remoteGraph, rootOk, maxCount, pending,
                   allextras, allmissings, allcommons>>
    /\ UNCHANGED exceptCompare

\* case node := <-processing, compareChildTriplesOf and the three Adds; the
\* range loop over commons is left to SendObject.
Receive ==
    /\ comparing = "loop"
    /\ Len(processing) > 0
    /\ LET locals == triplesForSubjectAndPredicate(localGraph, Head(processing))
           remotes == triplesForSubjectAndPredicate(remoteGraph, Head(processing))
           commons == locals \cap remotes
       IN  /\ allextras' = allextras \cup (locals \ remotes)
           /\ allmissings' = allmissings \cup (remotes \ locals)
           /\ allcommons' = allcommons \cup commons
           /\ pending' = {t[2] : t \in commons}
           /\ comparing' = IF commons = {} THEN "loop" ELSE "send"
    /\ processing' = Tail(processing)
    /\ UNCHANGED <<localGraph, remoteGraph, rootOk, maxCount>>
    /\ UNCHANGED exceptCompare

\* processing <- objectNode, for the next triple of commons.
SendObject ==
    /\ comparing = "send"
    /\ Len(processing) < maxCount
    /\ \E objectNode \in pending :
          /\ processing' = Append(processing, objectNode)
          /\ pending' = pending \ {objectNode}
    /\ comparing' = IF pending' = {} THEN "loop" ELSE "send"
    /\ UNCHANGED <<localGraph, remoteGraph, rootOk, maxCount, allextras, allmissings, allcommons>>
    /\ UNCHANGED exceptCompare

\* len(processing) > 0 is false: return allextras, allmissings, nil
CompareReturns ==
    /\ comparing = "loop"
    /\ Len(processing) = 0
    /\ comparing' = "returned"
    /\ UNCHANGED <<localGraph, remoteGraph, rootOk, maxCount, processing, pending,
                   allextras, allmissings, allcommons>>
    /\ UNCHANGED exceptCompare

CompareNext ==
    \/ MakeProcessing
    \/ SendRoot
    \/ Receive
    \/ SendObject
    \/ CompareReturns

\* The goroutine runs whenever it can take a step.
CompareSpec == CompareInit /\ [][CompareNext]_vars /\ WF_vars(CompareNext)

----------------------------------------------------------------------------
\* Properties

Last(s) == s[Len(s)]

\* The state is the one `pass` returned in.
After(pass) == ran # <<>> /\ Last(ran) = pass

\* What the last pass was handed.
pre == Last(given)

IsPrefix(s, t) == Len(s) <= Len(t) /\ SubSeq(t, 1, Len(s)) = s

\* C1: when a pass returns an error, Compile runs no later pass and returns
\* that error with the template and environment as the failing pass left them.
C1_ErrorAbortsPipeline ==
    err # NoErr =>
        /\ pc = "returned"
        /\ ran # <<>>
        /\ [tpl |-> tpl, env |-> env, err |-> err] \in PassResults(Last(ran), pre.tpl, pre.env)
        /\ \A i \in 1..(Len(ran) - 1) :
              \E r \in PassResults(ran[i], given[i].tpl, given[i].env) :
                 r.err = NoErr /\ r.tpl = given[i + 1].tpl /\ r.env = given[i + 1].env

\* A compile failed in its second pass, and the hole the first pass inserted
\* is in the template returned.
C1_Witness ==
    /\ pc = "returned"
    /\ err # NoErr
    /\ After("checkInvalidReferenceDeclarations")
    /\ \E i \in 1..Len(tpl) :
          /\ IsCommand(tpl[i])
          /\ cidr \in DOMAIN tpl[i].Holes
          /\ cidr \notin DOMAIN given[1].tpl[i].Holes

ExpectedLenient ==
    << "resolveAgainstDefinitions", "checkInvalidReferenceDeclarations",
       "resolveHolesPass", "resolveMissingHolesPass", "replaceVariableValuePass",
       "removeValueStatementsPass", "resolveAliasPass" >>

ExpectedNormal == ExpectedLenient \o <<"failOnUnresolvedHoles", "failOnUnresolvedAlias">>

\* C2: the lenient pipeline is passes 1 to 7 in order, the normal pipeline is
\* the lenient one followed by the two fail-on-unresolved passes, and Compile
\* without a mode runs the normal pipeline: the passes that have run are always
\* a prefix of the pipeline of the mode, and the whole of it when Compile
\* returns without an error.
C2_Pipelines ==
    LET expected == IF mode = <<ExpectedLenient>> THEN ExpectedLenient ELSE ExpectedNormal
    IN  /\ mode \in {<<>>, <<ExpectedLenient>>, <<ExpectedNormal>>}
        /\ IsPrefix(ran, expected)
        /\ (pc = "returned" /\ err = NoErr) => ran = expected

\* Compile without a mode returned having run the nine passes.
C2_Witness ==
    /\ pc = "returned"
    /\ err = NoErr
    /\ mode = <<>>
    /\ ran = ExpectedNormal

\* Some command of t has no definition or a param or ref key outside its
\* definition.
SomeCommandUndefinedOrUnexpected(t, e) ==
    \E i \in 1..Len(t) :
        /\ IsCommand(t[i])
        /\ LET key == t[i].Action \o t[i].Entity
           IN  \/ e.DefLookupFunc.isNil
               \/ key \notin DOMAIN e.DefLookupFunc.table
               \/ \E k \in DOMAIN t[i].Params \cup DOMAIN t[i].Refs :
                     /\ k \notin SeqRange(e.DefLookupFunc.table[key].Required)
                     /\ k \notin SeqRange(e.DefLookupFunc.table[key].Extra)

\* C3 as stated: resolve-against-definitions returns an error exactly when some
\* command has no definition or a param or ref key outside required and extra.
C3_Original ==
    After("resolveAgainstDefinitions") =>
        (err # NoErr <=> SomeCommandUndefinedOrUnexpected(pre.tpl, pre.env))

\* C3 amended: that holds when env has a definition lookup function; without
\* one the pass returns an error whatever the template.
C3_ErrorIffUndefinedOrUnexpected ==
    After("resolveAgainstDefinitions") =>
        IF pre.env.DefLookupFunc.isNil
        THEN err = Errorf("definition lookup function is undefined", <<>>)
        ELSE /\ err # NoErr <=> SomeCommandUndefinedOrUnexpected(pre.tpl, pre.env)
             /\ err # NoErr => err.msg \in {"cannot find template definition",
                                            "unexpected param key"}

\* A command with its required key and an extra key passed the pass.
C3_Witness ==
    /\ After("resolveAgainstDefinitions")
    /\ err = NoErr
    /\ \E i \in 1..Len(tpl) :
          IsCommand(tpl[i]) /\ DOMAIN tpl[i].Params = {cidr, name}

\* The required keys of the definition of cmd.
RequiredOf(e, cmd) == SeqRange(e.DefLookupFunc.table[cmd.Action \o cmd.Entity].Required)

IsSupplied(cmd, r) == r \in DOMAIN cmd.Params \cup DOMAIN cmd.Refs

\* The holes resolve-against-definitions owes command old for its required
\* keys: none at key entity.r when r is supplied, else the user's or the
\* normalized one at key r.
RequiredHolesNormalized(e, old, new) ==
    \A r \in RequiredOf(e, old) :
        IF IsSupplied(old, r)
        THEN (old.Entity \o <<".">> \o r) \notin DOMAIN new.Holes
        ELSE /\ r \in DOMAIN new.Holes
             /\ new.Holes[r] = IF r \in DOMAIN old.Holes THEN old.Holes[r]
                               ELSE old.Entity \o <<".">> \o r

\* C4 as stated: after resolve-against-definitions succeeds the holes of the
\* required keys are normalized, and the holes at other keys are untouched.
C4_Original ==
    (After("resolveAgainstDefinitions") /\ err = NoErr) =>
        \A i \in 1..Len(tpl) :
            IsCommand(pre.tpl[i]) =>
                /\ RequiredHolesNormalized(pre.env, pre.tpl[i], tpl[i])
                /\ \A k \in DOMAIN pre.tpl[i].Holes \ RequiredOf(pre.env, pre.tpl[i]) :
                      k \in DOMAIN tpl[i].Holes /\ tpl[i].Holes[k] = pre.tpl[i].Holes[k]

\* C4 amended: the holes at other keys are untouched, except that a hole at key
\* entity.r is deleted when the required key r is supplied as a param or a ref.
C4_HolesNormalized ==
    (After("resolveAgainstDefinitions") /\ err = NoErr) =>
        /\ Len(tpl) = Len(pre.tpl)
        /\ \A i \in 1..Len(tpl) :
            LET old == pre.tpl[i]
                new == tpl[i]
            IN  IF IsCommand(old)
                THEN /\ RequiredHolesNormalized(pre.env, old, new)
                     /\ \A k \in DOMAIN old.Holes \ RequiredOf(pre.env, old) :
                           IF \E r \in RequiredOf(pre.env, old) :
                                 IsSupplied(old, r) /\ k = old.Entity \o <<".">> \o r
                           THEN k \notin DOMAIN new.Holes
                           ELSE k \in DOMAIN new.Holes /\ new.Holes[k] = old.Holes[k]
                     /\ DOMAIN new.Holes \subseteq DOMAIN old.Holes \cup RequiredOf(pre.env, old)
                     /\ new = [old EXCEPT !.Holes = new.Holes]
                ELSE new = old

\* The pass kept the hole the user wrote for one required key, inserted the
\* normalized hole for another, and in another command deleted the hole at key
\* subnet.cidr because cidr was supplied.
C4_Witness ==
    /\ After("resolveAgainstDefinitions")
    /\ err = NoErr
    /\ \E i \in 1..Len(tpl) :
          /\ IsCommand(tpl[i])
          /\ pre.tpl[i].Holes = Only(cidr, holeH)
          /\ tpl[i].Holes = Only(cidr, holeH) @@ Only(name, subnet \o <<".">> \o name)
    /\ \E i \in 1..Len(tpl) :
          /\ IsCommand(tpl[i])
          /\ cidr \in DOMAIN tpl[i].Params
          /\ (subnet \o <<".">> \o cidr) \in DOMAIN pre.tpl[i].Holes
          /\ (subnet \o <<".">> \o cidr) \notin DOMAIN tpl[i].Holes

\* The identifiers assigned by the statements before statement i.
AssignedBefore(t, i) == {t[j].Ident : j \in {j \in 1..(i - 1) : IsDeclaration(t[j])}}

\* The references of the command of statement i to identifiers no earlier
\* statement assigns.
UndefinedRefs(t, i) ==
    IF IsCommand(t[i]) THEN {ref \in MapValues(t[i].Refs) : ref \notin AssignedBefore(t, i)}
    ELSE {}

\* Statement i assigns an identifier an earlier statement assigned.
Reassigns(t, i) == IsDeclaration(t[i]) /\ t[i].Ident \in AssignedBefore(t, i)

Least(S) == CHOOSE i \in S : \A j \in S : i <= j

IsUndefinedError(e) == e.msg = "is undefined in template"

IsAssignedError(e) == e.msg = "has already been assigned in template"

\* C5 as stated: check-invalid-references fails with the undefined-reference
\* error whenever a command has a ref no strictly earlier statement assigned,
\* and accepts the refs to identifiers assigned earlier.
C5_Original ==
    After("checkInvalidReferenceDeclarations") =>
        (IsUndefinedError(err) <=> \E i \in 1..Len(pre.tpl) : UndefinedRefs(pre.tpl, i) # {})

\* C5 amended: the pass fails whenever a command has such a ref; the error is
\* the undefined-reference error, naming such a ref of the first such command,
\* unless a statement before that command assigns an identifier a second time,
\* and then it is the already-assigned error.
C5_UndefinedReferenceFails ==
    After("checkInvalidReferenceDeclarations") =>
        LET t == pre.tpl
            bad == {i \in 1..Len(t) : UndefinedRefs(t, i) # {}}
        IN  IF bad = {} THEN ~IsUndefinedError(err)
            ELSE IF \E j \in 1..(Least(bad) - 1) : Reassigns(t, j)
                 THEN IsAssignedError(err)
                 ELSE /\ IsUndefinedError(err)
                      /\ err.args \in {<<ref>> : ref \in UndefinedRefs(t, Least(bad))}

\* The pass failed on an assignment whose command refers to the identifier the
\* assignment itself binds, after an assignment that a later command could use.
C5_Witness ==
    /\ After("checkInvalidReferenceDeclarations")
    /\ IsUndefinedError(err)
    /\ \E i \in 2..Len(pre.tpl) :
          /\ IsDeclaration(pre.tpl[i])
          /\ UndefinedRefs(pre.tpl, i) = {pre.tpl[i].Ident}
          /\ \A j \in 1..(i - 1) : UndefinedRefs(pre.tpl, j) = {} /\ ~Reassigns(pre.tpl, j)
          /\ \E j \in 1..(i - 1) : MapValues(pre.tpl[j].Refs) # {}

IdentifiersDistinct(t) ==
    \A i, j \in 1..Len(t) :
        (IsDeclaration(t[i]) /\ IsDeclaration(t[j]) /\ i # j) => t[i].Ident # t[j].Ident

\* C6 as stated: check-invalid-references fails with the already-assigned error
\* when two assignments use the same identifier, so a template that passes has
\* pairwise distinct identifiers.
C6_Original ==
    After("checkInvalidReferenceDeclarations") =>
        /\ (\E i \in 1..Len(pre.tpl) : Reassigns(pre.tpl, i)) => IsAssignedError(err)
        /\ err = NoErr => IdentifiersDistinct(tpl)

\* C6 amended: the pass fails when two assignments use the same identifier;
\* the error is the already-assigned error, naming the identifier, unless the
\* second assignment or a statement before it has a command with an undefined
\* reference, and then it is the undefined-reference error.
C6_DuplicateIdentifierFails ==
    After("checkInvalidReferenceDeclarations") =>
        LET t == pre.tpl
            dup == {i \in 1..Len(t) : Reassigns(t, i)}
        IN  /\ IF dup = {} THEN ~IsAssignedError(err)
               ELSE IF \E j \in 1..Least(dup) : UndefinedRefs(t, j) # {}
                    THEN IsUndefinedError(err)
                    ELSE IsAssignedError(err) /\ err.args = <<t[Least(dup)].Ident>>
            /\ err = NoErr => IdentifiersDistinct(tpl)

\* The pass failed with the already-assigned error on an identifier bound first
\* to a value and then to a command.
C6_Witness ==
    /\ After("checkInvalidReferenceDeclarations")
    /\ IsAssignedError(err)
    /\ \E i, j \in 1..Len(pre.tpl) :
          /\ i < j
          /\ IsValue(pre.tpl[i])
          /\ IsDeclaration(pre.tpl[j]) /\ IsCommand(pre.tpl[j])
          /\ pre.tpl[i].Ident = pre.tpl[j].Ident

HoleNames(t) ==
    UNION {IF IsCommand(t[i]) THEN {t[i].Holes[k] : k \in DOMAIN t[i].Holes}
           ELSE IF IsValue(t[i]) /\ t[i].Hole # <<>> THEN {t[i].Hole}
           ELSE IF IsAction(t[i])
           THEN UNION {SeqRange(paramGetHoles(t[i].ActionParams[k])) : k \in HoleParams(t[i])}
           ELSE {} : i \in 1..Len(t)}

\* Every hole of old named n was given v: a non-null v fills it, null leaves it.
GivenToHoles(old, new, n, v) ==
    \A i \in 1..Len(old) :
        /\ IsCommand(old[i]) =>
              \A k \in DOMAIN old[i].Holes :
                  old[i].Holes[k] = n =>
                      IF v = NIL THEN k \in DOMAIN new[i].Holes /\ new[i].Holes[k] = n
                      ELSE /\ k \notin DOMAIN new[i].Holes
                           /\ k \in DOMAIN new[i].Params /\ new[i].Params[k] = v
        /\ (IsValue(old[i]) /\ old[i].Hole = n) =>
              IF v = NIL THEN new[i].Hole = n
              ELSE new[i].Hole = <<>> /\ new[i].Value = v

\* C8 as stated: after resolve-holes and resolve-missing-holes, the names of
\* env.processedFillers are exactly the names that filled at least one hole,
\* that is the names unresolved before resolve-holes and resolved after
\* resolve-missing-holes.
C8_Original ==
    After("resolveMissingHolesPass") =>
        LET t3 == given[Len(ran) - 1].tpl
        IN  DOMAIN env.processedFillers = HoleNames(t3) \ HoleNames(tpl)

\* C8: after resolve-holes and resolve-missing-holes, env.processedFillers has
\* an entry exactly for the names given to at least one hole of the template,
\* from env.fillers or from the missing-holes callback, with the value given,
\* which is null, and fills no hole, when the callback answered null; a filler
\* whose name matches no hole has no entry.
C8_ProcessedFillersExact ==
    /\ ("resolveHolesPass" \notin SeqRange(ran)) => env.processedFillers = EmptyMap
    /\ After("resolveMissingHolesPass") =>
        LET n == Len(ran)
            t3 == given[n - 1].tpl
            t4 == given[n].tpl
            fillers == given[n - 1].env.Fillers
            fromFillers == HoleNames(t3) \cap DOMAIN fillers
            fromCallback == IF given[n].env.MissingHolesFuncIsNil THEN {} ELSE HoleNames(t4)
        IN  /\ ran[n - 1] = "resolveHolesPass"
            /\ DOMAIN env.processedFillers = fromFillers \cup fromCallback
            /\ \A h \in fromFillers \ fromCallback :
                  /\ env.processedFillers[h] = fillers[h]
                  /\ GivenToHoles(t3, t4, h, fillers[h])
            /\ \A h \in fromCallback : GivenToHoles(t4, tpl, h, env.processedFillers[h])
            /\ \A h \in DOMAIN fillers \ HoleNames(t3) : h \notin DOMAIN env.processedFillers

\* The processed fillers hold one entry that came from the fillers and one that
\* came from the callback, and none for the filler z that matches no hole.
C8_Witness ==
    /\ After("resolveMissingHolesPass")
    /\ <<"z">> \in DOMAIN env.Fillers
    /\ DOMAIN env.processedFillers = {subnet \o <<".">> \o cidr, holeG}
    /\ env.processedFillers[holeG] # NIL

\* The names resolve-holes filled.
FilledByResolveHoles ==
    LET n == Len(ran)
    IN  HoleNames(given[n - 1].tpl) \cap DOMAIN given[n - 1].env.Fillers

\* C9: resolve-missing-holes calls the missing-holes callback exactly once for
\* each distinct hole name still unresolved after resolve-holes, in ascending
\* lexicographic order, never for a name resolve-holes filled, and never when
\* no callback is set, in which case the template and the processed fillers are
\* unchanged.
C9_CallbackPromptsSorted ==
    /\ ("resolveMissingHolesPass" \notin SeqRange(ran)) => prompted = <<>>
    /\ After("resolveMissingHolesPass") =>
        IF pre.env.MissingHolesFuncIsNil
        THEN prompted = <<>> /\ tpl = pre.tpl /\ env = pre.env
        ELSE /\ SeqRange(prompted) = HoleNames(pre.tpl)
             /\ \A i, j \in 1..Len(prompted) : i < j => StrLess(prompted[i], prompted[j])
             /\ SeqRange(prompted) \cap FilledByResolveHoles = {}

\* The callback was asked for g, h and subnet.cidr in that order, for holes
\* that come in the template in the order h, g, subnet.cidr, after resolve-holes
\* had filled nothing.
C9_Witness ==
    /\ After("resolveMissingHolesPass")
    /\ prompted = <<holeG, holeH, subnet \o <<".">> \o cidr>>
    /\ Len(pre.tpl) > 1
    /\ pre.tpl[1].Holes = Only(cidr, holeH) @@ Only(name, holeG)
    /\ pre.tpl[2].Holes = Only(cidr, subnet \o <<".">> \o cidr)

\* The assignment of t that binds ident to a resolved value, if any.
ResolvedValueOf(t, ident) ==
    {i \in 1..Len(t) : IsValue(t[i]) /\ t[i].Hole = <<>> /\ t[i].Ident = ident}

\* C10: after replace-variable-values, env.resolvedReferences maps the
\* identifier of every assignment of a resolved value to that value, every
\* command ref naming such an identifier is a param with that value and no
\* longer a ref, and the refs naming an identifier bound to a command stay.
C10_ResolvedValuesReplaceRefs ==
    After("replaceVariableValuePass") =>
        LET t == pre.tpl
        IN  /\ err = NoErr
            /\ Len(tpl) = Len(t)
            /\ \A i \in 1..Len(t) :
                  (IsValue(t[i]) /\ t[i].Hole = <<>>) =>
                      /\ t[i].Ident \in DOMAIN env.ResolvedReferences
                      /\ env.ResolvedReferences[t[i].Ident] = t[i].Value
            /\ \A j \in 1..Len(t) :
                  IsCommand(t[j]) =>
                      \A k \in DOMAIN t[j].Refs :
                          LET ref == t[j].Refs[k]
                          IN  IF ResolvedValueOf(t, ref) # {}
                              THEN /\ k \notin DOMAIN tpl[j].Refs
                                   /\ k \in DOMAIN tpl[j].Params
                                   /\ \A i \in ResolvedValueOf(t, ref) :
                                         tpl[j].Params[k] = t[i].Value
                              ELSE (\E i \in 1..Len(t) : IsDeclaration(t[i]) /\ IsCommand(t[i])
                                                          /\ t[i].Ident = ref) =>
                                       /\ k \in DOMAIN tpl[j].Refs
                                       /\ tpl[j].Refs[k] = ref
                                       /\ k \notin DOMAIN tpl[j].Params

\* identA was assigned a literal and identB a command; a command that
\* referred to identA has the literal as its param and no ref, and a command
\* that referred to identB still has its ref.
C10_Witness ==
    /\ After("replaceVariableValuePass")
    /\ env.ResolvedReferences = Only(identA, literal)
    /\ \E i, j \in 1..Len(tpl) :
          /\ i < j
          /\ IsValue(pre.tpl[i]) /\ pre.tpl[i].Ident = identA
          /\ pre.tpl[j].Refs = Only(cidr, identA)
          /\ tpl[j].Params = Only(cidr, literal)
          /\ tpl[j].Refs = EmptyMap
          /\ tpl[j].Ident = identB


\* The statements of t that are no assignment of a resolved value.
KeptIndexes(t) == {i \in 1..Len(t) : ~(IsValue(t[i]) /\ t[i].Hole = <<>>)}

\* C11: the statements remove-value-statements returns are the statements it
\* was given, in the same order, without the assignments of a resolved value:
\* no such assignment remains, and every command, every assignment of a command
\* and every assignment of an unresolved value is kept.
C11_ResolvedValuesRemoved ==
    After("removeValueStatementsPass") =>
        LET t == pre.tpl
            kept == KeptIndexes(t)
        IN  /\ err = NoErr
            /\ env = pre.env
            /\ Len(tpl) = Cardinality(kept)
            /\ \A i \in kept : tpl[Cardinality({j \in kept : j <= i})] = t[i]
            /\ \A i \in 1..Len(tpl) : ~(IsValue(tpl[i]) /\ tpl[i].Hole = <<>>)

\* An assignment of a resolved value was dropped from between an assignment of
\* an unresolved value and a command, which were kept in their order.
C11_Witness ==
    /\ After("removeValueStatementsPass")
    /\ Len(pre.tpl) = 3
    /\ IsValue(pre.tpl[1]) /\ pre.tpl[1].Hole = holeG
    /\ IsValue(pre.tpl[2]) /\ pre.tpl[2].Hole = <<>>
    /\ IsCommand(pre.tpl[3])
    /\ tpl = <<pre.tpl[1], pre.tpl[3]>>


\* The params of statement i of t that are a string starting with "@".
AliasParams(t, i) ==
    IF IsCommand(t[i])
    THEN {k \in DOMAIN t[i].Params : t[i].Params[k] # NIL /\ t[i].Params[k] # <<>>
                                       /\ Head(t[i].Params[k]) = "@"}
    ELSE {}

\* C12: resolve-aliases, with a resolver, calls it once for every command
\* param that is a string starting with "@", with the command's entity, the key
\* and the string without its "@"; a non-empty answer replaces the param and
\* deletes the entry of holes at that key; the other params are unchanged.
C12_AliasParamsResolved ==
    (After("resolveAliasPass") /\ ~pre.env.AliasFuncIsNil) =>
        LET t == pre.tpl
        IN  /\ Len(tpl) = Len(t)
            /\ \A c \in asked :
                  /\ c.stmt \in 1..Len(t)
                  /\ IsCommand(t[c.stmt]) => c.key \in AliasParams(t, c.stmt)
            /\ \A i \in 1..Len(t) :
                 /\ DOMAIN tpl[i].Params = DOMAIN t[i].Params
                 /\ \A k \in DOMAIN t[i].Params \ AliasParams(t, i) :
                       tpl[i].Params[k] = t[i].Params[k]
                 /\ \A k \in AliasParams(t, i) :
                       /\ Cardinality({c \in asked : c.stmt = i /\ c.key = k}) = 1
                       /\ \A c \in asked :
                            (c.stmt = i /\ c.key = k) =>
                               /\ c.entity = t[i].Entity
                               /\ c.alias = Tail(t[i].Params[k])
                               /\ c.actual # <<>> =>
                                     /\ tpl[i].Params[k] = c.actual
                                     /\ k \notin DOMAIN tpl[i].Holes

\* The resolver answered x for the alias b of `name=@b name={g}`: the param is
\* x, the hole at name is gone, and the literal param cidr is as it was.
C12_Witness ==
    /\ After("resolveAliasPass")
    /\ \E c \in asked :
          /\ c.entity = subnet /\ c.key = name /\ c.alias = <<"b">> /\ c.actual = <<"x">>
          /\ pre.tpl[c.stmt].Params = Only(cidr, literal) @@ Only(name, <<"@", "b">>)
          /\ pre.tpl[c.stmt].Holes = Only(name, holeG)
          /\ tpl[c.stmt].Params = Only(cidr, literal) @@ Only(name, <<"x">>)
          /\ tpl[c.stmt].Holes = EmptyMap


\* The calls of the resolver that returned the empty string.
FailedCalls == {c \in asked : c.actual = <<>>}

\* C13: resolve-aliases attempts every alias of every command and returns an
\* error exactly when some alias resolved to the empty string; the error lists
\* each alias that resolved to empty, once per failed call, and no other; the
\* aliases that resolved stay replaced in the template returned with the error.
C13_AllAliasFailuresListed ==
    After("resolveAliasPass") =>
        /\ err # NoErr <=> FailedCalls # {}
        /\ err # NoErr =>
              /\ err.msg = "cannot resolve aliases"
              /\ Len(err.args) = Cardinality(FailedCalls)
              /\ \A a \in SeqRange(err.args) \cup {c.alias : c \in FailedCalls} :
                    Cardinality({j \in 1..Len(err.args) : err.args[j] = a})
                        = Cardinality({c \in FailedCalls : c.alias = a})
        /\ ~pre.env.AliasFuncIsNil =>
              \A i \in 1..Len(pre.tpl) :
                  \A k \in AliasParams(pre.tpl, i) :
                      \E c \in asked :
                          /\ c.stmt = i /\ c.key = k
                          /\ tpl[i].Params[k] =
                                IF c.actual = <<>> THEN pre.tpl[i].Params[k] ELSE c.actual

\* The pass failed listing the alias b of the first command and the alias a
\* of the second, while the alias a of the first command, which resolved, is
\* replaced in the template returned.
C13_Witness ==
    /\ After("resolveAliasPass")
    /\ pc = "returned"
    /\ err.msg = "cannot resolve aliases"
    /\ SeqRange(err.args) = {<<"a">>, <<"b">>}
    /\ Len(err.args) = 2
    /\ Len(tpl) = 2
    /\ pre.tpl[1].Params = Only(cidr, <<"@", "a">>) @@ Only(name, <<"@", "b">>)
    /\ tpl[1].Params = Only(cidr, <<"x">>) @@ Only(name, <<"@", "b">>)
    /\ tpl[2].Params = Only(cidr, <<"@", "a">>)


\* C14 as stated: a lenient compile of a template with an alias param for which
\* the resolver returned the empty string returns without error, the param
\* still being the "@" string.
C14_LenientKeepsUnresolvedAlias ==
    (pc = "returned" /\ mode = <<ExpectedLenient>>) =>
        \A c \in FailedCalls :
            /\ err = NoErr
            /\ tpl[c.stmt].Params[c.key] = <<"@">> \o c.alias


C16_NormalCompileLeavesNoHole ==
    (pc = "returned" /\ mode # <<ExpectedLenient>>) =>
        /\ err = NoErr =>
              /\ \A i \in 1..Len(tpl) : IsCommand(tpl[i]) => tpl[i].Holes = EmptyMap
              /\ HoleNames(tpl) = {}
        /\ (After("failOnUnresolvedHoles") /\ HoleNames(tpl) # {}) =>
              /\ err.msg = "template contains unresolved holes"
              /\ SeqRange(err.args) = HoleNames(tpl)


\* The hole names for which the missing-holes callback answered null.
NullAnswers == {n \in SeqRange(prompted) : env.processedFillers[n] = NIL}

\* C17 as stated: a hole for whose name the missing-holes callback returned
\* null is still unresolved after resolve-missing-holes, and the normal-mode
\* compile then fails in fail-on-unresolved-holes.
C17_NullAnswerFailsNormalCompile ==
    /\ After("resolveMissingHolesPass") => NullAnswers \subseteq HoleNames(tpl)
    /\ (After("failOnUnresolvedHoles") /\ NullAnswers # {}) =>
          err.msg = "template contains unresolved holes"


\* C18 as stated: after resolve-against-definitions, the required keys of the
\* definition of every command are among the keys of its params, the keys of
\* its refs and the values of its holes.
C18_Original ==
    (After("resolveAgainstDefinitions") /\ err = NoErr) =>
        \A i \in 1..Len(tpl) :
            IsCommand(tpl[i]) =>
                RequiredOf(pre.env, tpl[i]) \subseteq
                    DOMAIN tpl[i].Params \cup DOMAIN tpl[i].Refs \cup MapValues(tpl[i].Holes)

\* C18 amended: after resolve-against-definitions has returned without error,
\* the required keys of the definition of every command are among the keys of
\* its params, the keys of its refs and the keys of its holes (the value of a
\* hole is the hole's name: the one the user wrote, or entity.key).
C18_RequiredKeysCovered ==
    (After("resolveAgainstDefinitions") /\ err = NoErr) =>
        \A i \in 1..Len(tpl) :
            IsCommand(tpl[i]) =>
                RequiredOf(pre.env, tpl[i]) \subseteq
                    DOMAIN tpl[i].Params \cup DOMAIN tpl[i].Refs \cup DOMAIN tpl[i].Holes

\* Both keys are required: a command that had cidr as a param and no name now
\* has the hole subnet.name at key name, and a command that had neither has a
\* hole at each key.
C18_Witness ==
    /\ After("resolveAgainstDefinitions")
    /\ err = NoErr
    /\ \E i \in 1..Len(tpl) :
          /\ IsCommand(tpl[i])
          /\ RequiredOf(pre.env, tpl[i]) = {cidr, name}
          /\ DOMAIN pre.tpl[i].Params = {cidr}
          /\ pre.tpl[i].Holes = EmptyMap
          /\ tpl[i].Holes = Only(name, subnet \o <<".">> \o name)
    /\ \E i \in 1..Len(tpl) :
          /\ IsCommand(tpl[i])
          /\ DOMAIN pre.tpl[i].Params \cup DOMAIN pre.tpl[i].Refs \cup DOMAIN pre.tpl[i].Holes = {}
          /\ DOMAIN tpl[i].Holes = {cidr, name}


\* The keys command cmd has in more than one of its params, refs and holes.
SharedKeys(cmd) ==
    (DOMAIN cmd.Params \cap DOMAIN cmd.Refs)
        \cup (DOMAIN cmd.Params \cap DOMAIN cmd.Holes)
        \cup (DOMAIN cmd.Refs \cap DOMAIN cmd.Holes)

\* C19 as stated: at every point of a compilation, after parsing and after
\* each pass, every param key of every command is in exactly one of its
\* params, refs and holes, also when the line repeated the key with values of
\* different kinds.
C19_KeysInExactlyOneMap ==
    \A i \in 1..Len(tpl) : IsCommand(tpl[i]) => SharedKeys(tpl[i]) = {}


\* The names of the holes of value v, filled or not.
RECURSIVE HolesOf(_)
HolesOf(v) ==
    IF v.kind = "holeValue" THEN {v.name}
    ELSE UNION {HolesOf(v.vals[i]) : i \in 1..Len(v.vals)}

\* C20 as stated: after fillHoles(m) on a value, the unresolved hole names it
\* reports are exactly those it reported before minus the keys of m.
C20_Original ==
    lastCall = "ProcessHoles" =>
        SeqRange(valueGetHoles(tcaseVal)) = holesBefore \ DOMAIN holesFillers

\* C20 amended: after fillHoles(m) on a value, the unresolved hole names it
\* reports are those it reported before minus the keys of m, plus the names of
\* its holes that m maps to null (such a hole is unresolved afterwards, also
\* when it was filled before); and the map returned is m restricted to the
\* names of the holes of the value.
C20_FillHolesRemovesNonNullKeys ==
    lastCall = "ProcessHoles" =>
        LET nulled == {n \in HolesOf(tcaseVal) \cap DOMAIN holesFillers : holesFillers[n] = NIL}
        IN  /\ SeqRange(valueGetHoles(tcaseVal)) =
                  (holesBefore \ DOMAIN holesFillers) \cup nulled
            /\ processedHoles =
                  [n \in HolesOf(tcaseVal) \cap DOMAIN holesFillers |-> holesFillers[n]]

\* The list [{g},{h}] was given g: w and h: nil: g is filled, h is still
\* reported, and both entries are in the map returned.
C20_Witness ==
    /\ fillCount = 1
    /\ holesBefore = {holeG, holeH}
    /\ holesFillers = Only(holeG, filler) @@ Only(holeH, NIL)
    /\ tcaseVal = NewCompositeValue(<<holeValue(holeG, filler), holeValue(holeH, NIL)>>)
    /\ valueGetHoles(tcaseVal) = <<holeH>>
    /\ processedHoles = holesFillers


\* The total length of the first n sequences of rs.
RECURSIVE LenUpTo(_, _)
LenUpTo(rs, n) == IF n = 0 THEN 0 ELSE LenUpTo(rs, n - 1) + Len(rs[n])

\* res is rs[1] \o rs[2] \o ..., element by element.
IsConcatenation(res, rs) ==
    /\ Len(res) = LenUpTo(rs, Len(rs))
    /\ \A i \in 1..Len(rs) :
          \A j \in 1..Len(rs[i]) : res[LenUpTo(rs, i - 1) + j] = rs[i][j]

\* C21: for a list value, GetHoles, GetRefs and GetAliases each return the
\* concatenation, in child order, of what the children return; a child that
\* lacks the capability (a literal has no holes, refs or aliases) contributes
\* nothing.
C21_ListQueriesConcatenate ==
    tcaseVal.kind = "listValue" =>
        LET children == tcaseVal.vals
            n == Len(children)
        IN  /\ IsConcatenation(valueGetHoles(tcaseVal),
                               [i \in 1..n |-> valueGetHoles(children[i])])
            /\ IsConcatenation(valueGetRefs(tcaseVal),
                               [i \in 1..n |-> valueGetRefs(children[i])])
            /\ IsConcatenation(valueGetAliases(tcaseVal),
                               [i \in 1..n |-> valueGetAliases(children[i])])

\* The list [$b, $a], after a call of its ProcessRefs, reports b before a, and
\* no hole and no alias.
C21_Witness ==
    /\ lastCall = "ProcessRefs"
    /\ tcaseVal.kind = "listValue"
    /\ Len(tcaseVal.vals) = 2
    /\ tcaseVal.vals[1].kind = "referenceValue"
    /\ tcaseVal.vals[2].kind = "referenceValue"
    /\ valueGetRefs(tcaseVal) = <<identB, identA>>
    /\ valueGetHoles(tcaseVal) = <<>>
    /\ valueGetAliases(tcaseVal) = <<>>


\* The place of child i among the children whose value is not nil.
RankAmong(keep, i) == Cardinality({j \in keep : j <= i})

\* C22: the value of a list is the sequence, in child order, of exactly the
\* values of its children that are not nil; a hole without a value and a
\* reference without a value are left out, and a hole that ProcessHoles gave
\* a value has that value at its place.
C22_ListValueKeepsNonNull ==
    tcaseVal.kind = "listValue" =>
        LET children == tcaseVal.vals
            each == [i \in 1..Len(children) |-> valueValue(children[i])]
            keep == {i \in 1..Len(children) : each[i] # GoNil}
            res == valueValue(tcaseVal)
        IN  /\ res.type = "[]interface{}"
            /\ Len(res.elems) = Cardinality(keep)
            /\ \A i \in keep : res.elems[RankAmong(keep, i)] = each[i]
            /\ \A i \in 1..Len(children) :
                  /\ children[i].kind \in {"holeValue", "referenceValue"}
                  /\ children[i].val = NIL
                  => i \notin keep
            /\ \A i \in 1..Len(children) :
                  /\ lastCall = "ProcessHoles"
                  /\ children[i].kind = "holeValue"
                  /\ children[i].name \in DOMAIN holesFillers
                  /\ holesFillers[children[i].name] # NIL
                  => /\ i \in keep
                     /\ res.elems[RankAmong(keep, i)] = GoString(holesFillers[children[i].name])

\* ["test", 10, {myhole}, $myref] after ProcessHoles with a value for myhole:
\* its value is ["test", 10, the value].
C22_Witness ==
    /\ lastCall = "ProcessHoles"
    /\ tcaseVal.kind = "listValue"
    /\ Len(tcaseVal.vals) = 4
    /\ holesFillers = Only(holeG, filler)
    /\ valueValue(tcaseVal) = GoSlice(<<GoString(literal), GoString(literal10), GoString(filler)>>)


\* The holes, references and aliases inside value v, v itself included.
RECURSIVE LeavesOf(_)
LeavesOf(v) ==
    IF v.kind = "listValue" THEN UNION {LeavesOf(v.vals[i]) : i \in 1..Len(v.vals)}
    ELSE {v}

\* A hole that has a value reports no name from GetHoles, alone and in a list.
FilledHolesReportNothing ==
    /\ \A x \in LeavesOf(tcaseVal) :
          x.kind = "holeValue" /\ x.val # NIL => valueGetHoles(x) = <<>>
    /\ (\A x \in LeavesOf(tcaseVal) : x.kind = "holeValue" => x.val # NIL)
          => valueGetHoles(tcaseVal) = <<>>

\* C23: a hole that has been filled reports no name from GetHoles, a reference
\* that ProcessRefs has filled reports no name from GetRefs, and an alias that
\* ResolveAlias resolved to a non-empty value reports no name from GetAliases,
\* alone and as an element of a list.
C23_FilledReportsNoName ==
    /\ FilledHolesReportNothing
    /\ \A x \in LeavesOf(tcaseVal) :
          /\ x.kind = "referenceValue" /\ x.val # NIL => valueGetRefs(x) = <<>>
          /\ x.kind = "aliasValue" /\ x.val \notin {NIL, <<>>} => valueGetAliases(x) = <<>>
    /\ (\A x \in LeavesOf(tcaseVal) : x.kind = "referenceValue" => x.val # NIL)
          => valueGetRefs(tcaseVal) = <<>>
    /\ (\A x \in LeavesOf(tcaseVal) : x.kind = "aliasValue" => x.val \notin {NIL, <<>>})
          => valueGetAliases(tcaseVal) = <<>>


\* The references of statement i: the refs of a command, and the references
\* inside the lists of an ActionNode.
ReferenceOccurrences(t, i) ==
    IF IsCommand(t[i]) THEN MapValues(t[i].Refs)
    ELSE IF IsAction(t[i])
    THEN UNION {SeqRange(valueGetRefs(t[i].ActionParams[k])) : k \in DOMAIN t[i].ActionParams}
    ELSE {}

\* C24: in a template check-invalid-references accepts, every reference, a
\* `$name` param of a command or a `$name` element of a list param, names an
\* identifier that a strictly earlier statement assigns.
C24_AcceptedReferencesAssignedEarlier ==
    After("checkInvalidReferenceDeclarations") /\ err = NoErr =>
        \A i \in 1..Len(tpl) : ReferenceOccurrences(tpl, i) \subseteq AssignedBefore(tpl, i)

\* The part of C24 about the params of commands.
CommandReferencesAssignedEarlier ==
    After("checkInvalidReferenceDeclarations") /\ err = NoErr =>
        \A i \in 1..Len(tpl) :
            IsCommand(tpl[i]) => ReferenceOccurrences(tpl, i) \subseteq AssignedBefore(tpl, i)


HasRun(pass) == \E k \in 1..Len(ran) : ran[k] = pass

\* C25: the template remove-value-statements returns does not alias its
\* input: the statements of the input template are as they were when the pass
\* was called, when it returns and after every later pass, whatever a later
\* pass changes in a statement of the template returned.
C25_PrunedTemplateDoesNotAlias ==
    HasRun("removeValueStatementsPass") =>
        Dereference(inputTpl, tpl) = [i \in 1..Len(inputTpl) |-> inputTpl[i].node]

\* The part of C25 about the pass itself: when it returns, the statements of
\* its input template are unchanged.
PruningLeavesInputUnchanged ==
    After("removeValueStatementsPass") =>
        /\ Dereference(inputTpl, tpl) = pre.tpl
        /\ [i \in 1..Len(inputTpl) |-> inputTpl[i].node] = pre.tpl


Greatest(S) == CHOOSE x \in S : \A y \in S : y <= x

\* C26: the token max that a parse error reports has the greatest end of all
\* the non-empty tokens handed to add during the parse, those of matches that
\* backtracking undid included; its end never decreases; and the error of a
\* failed parse holds that token.
C26_ErrorReportsFarthestToken ==
    /\ max.end = Greatest(added \cup {0})
    /\ max.end >= maxBefore.end
    /\ max.end > 0 => max.begin < max.end
    /\ parsed = "failed" => parseError = max

\* The parse failed after a rule matched up to 2 and was undone, and after a
\* shorter match: the error reports the token that ends at 2.
C26_Witness ==
    /\ parsed = "failed"
    /\ position < 2
    /\ added = {1, 2}
    /\ parseError.end = 2


\* The keys of a statement, in any of its maps.
StatementKeys(st) ==
    DOMAIN st.Params \cup DOMAIN st.Refs \cup DOMAIN st.Holes \cup DOMAIN st.ActionParams

\* C27: every param key written on the line of a command is a key of the
\* statement the builder appends for the line, as a param, a ref, a hole or
\* a list value.
C27_NoParamLost ==
    \A i \in 1..Len(lineLog) :
        lineLog[i].at > 0 => lineLog[i].keys \subseteq StatementKeys(Statements[lineLog[i].at])

\* The part of C27 about the lines without a list.
NoParamLostWithoutList ==
    \A i \in 1..Len(lineLog) :
        lineLog[i].at > 0 /\ lineLog[i].lists = {}
            => lineLog[i].keys \subseteq StatementKeys(Statements[lineLog[i].at])


\* The lines done up to line i that are a command or an assignment.
StatementLines(i) == {j \in 1..i : lineLog[j].kind # ""}

\* What C28 says whatever decides between the two nodes of a direct command:
\* a command or assignment line appends exactly one statement, blank lines
\* and comments none, the statements are in document order, every LineDone
\* resets the four current fields, and no action changes a statement appended
\* before.
OneStatementPerLine ==
    /\ \A i \in 1..Len(lineLog) :
          IF lineLog[i].kind = ""
          THEN lineLog[i].appended = 0
          ELSE /\ lineLog[i].appended = 1
               /\ lineLog[i].at = Cardinality(StatementLines(i))
               /\ lineLog[i].kind = "declaration"
                     => Statements[lineLog[i].at].Node = "DeclarationNode"
    /\ Len(Statements) = Cardinality(StatementLines(Len(lineLog)))
    /\ executed = "LineDone" =>
          /\ currentStatement = NoStmt
          /\ currentKey = <<>>
          /\ currentActionStatement = NoStmt
          /\ currentListBuilder = NoListBuilder
    /\ IsPrefix(statementsBefore, Statements)

C29_FailedValidationChangesNothing ==
    After("resolveAgainstDefinitions") =>
        IF err # NoErr
        THEN tpl = pre.tpl /\ env = pre.env
        ELSE \A i \in 1..Len(pre.tpl) :
                 IsCommand(pre.tpl[i]) => eachDefinition(pre.env, pre.tpl[i]) = {NoErr}

\* The pass failed on the second command; the first is valid and lacks a
\* required key, so that normalizing it would have added a hole.
C29_Witness ==
    /\ After("resolveAgainstDefinitions")
    /\ err # NoErr
    /\ ~pre.env.DefLookupFunc.isNil
    /\ Len(pre.tpl) = 2
    /\ IsCommand(pre.tpl[1])
    /\ eachDefinition(pre.env, pre.tpl[1]) = {NoErr}
    /\ normalizeHoles(pre.env, pre.tpl[1]) # pre.tpl[1]
    /\ IsCommand(pre.tpl[2])
    /\ err \in eachDefinition(pre.env, pre.tpl[2])
    /\ tpl[1] = pre.tpl[1]


\* A send on processing is blocked: the buffer is full, and the goroutine that
\* sends is the only one that receives.
SendBlocked == comparing \in {"sendRoot", "send"} /\ Len(processing) >= maxCount

\* C30: no send on processing ever blocks, and Compare returns.
C30_CompareTerminates == [](~SendBlocked) /\ <>(comparing = "returned")

\* The part of C30 that holds: when a graph has a triple and, among the
\* parent-of triples common to both graphs, none leads to the root and no two
\* lead to the same node, no send blocks.
IsCommonTree ==
    LET both == localGraph \cap remoteGraph
    IN  /\ \A t \in both : t[2] # rootNode
        /\ \A s, t \in both : s[2] = t[2] => s = t

TreesNeverBlock ==
    (IsCommonTree /\ localGraph \cup remoteGraph # {}) => ~SendBlocked

====
